---- MODULE Spec2Model ----
(***************************************************************************)
(* Voice-turn session manager and streaming response pipeline of the       *)
(* voice-client extension: the in-memory session store, the audio endpoint *)
(* (validation, bounded body read, transcription, agent call, event        *)
(* stream) and the cumulative-text-to-delta conversion of the streaming    *)
(* agent service.                                                          *)
(*                                                                         *)
(* Texts are sequences of one-character strings, so that slice, trim and   *)
(* join are computed as the code computes them.  Error messages are        *)
(* sequences of strings (a template and its arguments).                    *)
(***************************************************************************)
EXTENDS Integers, Sequences, FiniteSets, TLC

(***************************************************************************)
(* Bounds of the model                                                     *)
(***************************************************************************)
\* chunks one request body is delivered in
MaxChunks == 2
\* onPartialReply invocations of one agent run
MaxSnapshots == 2
\* messages a session history may hold before new requests are refused
MaxHistory == 4
\* clock advances of a run of the session manager under time
MaxTicks == 2
\* messages direct addMessage calls put into one history
MaxMessages == 1
\* createSession calls that return one and the same identifier
MaxRepeats == 2
MaxPayloads == 2
MaxTextLen == 2

(***************************************************************************)
(* Program constants                                                       *)
(***************************************************************************)
MAX_AUDIO_SIZE == 10 * 1024 * 1024
IDLE_TIMEOUT_MS == 5 * 60 * 1000
CHECK_INTERVAL_MS == 30 * 1000

\* config.profiles.allowed of the deployment under study
AllowedProfiles == {"Alice", "Bob"}
\* identifiers the id generator can produce
SessionIds == {"s1", "s2"}
\* values of the sessionId query parameter; "" is an absent parameter
SessionIdParams == {"", "s1", "s2"}
\* connections the HTTP server handles at the same time
Conns == {"c1", "c2"}

\* request body chunk sizes (bytes)
ChunkSizes == {1, MAX_AUDIO_SIZE - 1, MAX_AUDIO_SIZE}

FALLBACK_RESPONSE == <<"I'm sorry, I couldn't generate a response.">>

(***************************************************************************)
(* Text helpers (String.prototype.slice / trim, Array.prototype.join)      *)
(***************************************************************************)
\* text.slice(start) for start >= 0
Slice(text, start) ==
  IF start >= Len(text) THEN <<>> ELSE SubSeq(text, start + 1, Len(text))

IsSpace(ch) == ch = " "

RECURSIVE TrimStart(_)
TrimStart(text) ==
  IF text = <<>> THEN <<>>
  ELSE IF IsSpace(Head(text)) THEN TrimStart(Tail(text)) ELSE text

RECURSIVE TrimEnd(_)
TrimEnd(text) ==
  IF text = <<>> THEN <<>>
  ELSE IF IsSpace(text[Len(text)]) THEN TrimEnd(SubSeq(text, 1, Len(text) - 1))
  ELSE text

Trim(text) == TrimEnd(TrimStart(text))

\* parts.join(" ")
RECURSIVE JoinSpace(_)
JoinSpace(parts) ==
  IF parts = <<>> THEN <<>>
  ELSE IF Len(parts) = 1 THEN parts[1]
  ELSE parts[1] \o <<" ">> \o JoinSpace(Tail(parts))

RECURSIVE SelectSeqRec(_, _)
SelectSeqRec(s, keep) ==
  IF s = <<>> THEN <<>>
  ELSE (IF Head(s) \in keep THEN <<Head(s)>> ELSE <<>>) \o SelectSeqRec(Tail(s), keep)

RECURSIVE Flatten(_)
Flatten(ss) == IF ss = <<>> THEN <<>> ELSE Head(ss) \o Flatten(Tail(ss))

(***************************************************************************)
(* State                                                                   *)
(***************************************************************************)
VARIABLES
  now,              \* Date.now()
  sessions,         \* Map<string, VoiceClientSession>
  pausedSessions,   \* Set<string>
  idleTimers,       \* Map<string, Timeout>: id -> time the timer is due
  cleanupInterval,  \* TRUE while the sweep interval is installed
  sweepDue,         \* time the installed interval is next due
  notifications,    \* pause/resume callbacks invoked by the last step
  newSessionResponse, \* response of the last create-session request
  sessionInfoResponse, \* response the step gave to a session-info request
  thrown,           \* message of the error the last direct call of the
                    \* session manager threw, <<>> when it returned
  conn,             \* per connection: the request being handled and its response
  turnLog,          \* per identifier ever generated: the turns run on that session
  call,             \* a direct call of a service function: arguments and effects
  popup             \* the desktop client's popup window: its module variables,
                    \* its pending promises and its registered listeners

vars == <<now, sessions, pausedSessions, idleTimers, cleanupInterval, sweepDue,
          notifications, newSessionResponse, sessionInfoResponse, thrown, conn,
          turnLog, call, popup>>

(***************************************************************************)
(* Session manager.  The operators take and return the module-level state  *)
(* of the session manager as one record S, so that an operation that calls *)
(* another (addMessage -> resumeSession -> resetIdleTimer) composes.       *)
(***************************************************************************)
Put(f, k, v) == [x \in (DOMAIN f) \cup {k} |-> IF x = k THEN v ELSE f[x]]
Remove(f, k) == [x \in (DOMAIN f) \ {k} |-> f[x]]

Store ==
  [sessions |-> sessions, pausedSessions |-> pausedSessions,
   idleTimers |-> idleTimers, cleanupInterval |-> cleanupInterval,
   sweepDue |-> sweepDue, notifications |-> <<>>]

SetStore(S) ==
  /\ sessions' = S.sessions
  /\ pausedSessions' = S.pausedSessions
  /\ idleTimers' = S.idleTimers
  /\ cleanupInterval' = S.cleanupInterval
  /\ sweepDue' = S.sweepDue
  /\ notifications' = S.notifications

\* if (cleanupInterval) return; cleanupInterval = setInterval(..., CHECK_INTERVAL_MS)
startCleanupInterval(S) ==
  IF S.cleanupInterval THEN S
  ELSE [S EXCEPT !.cleanupInterval = TRUE, !.sweepDue = now + CHECK_INTERVAL_MS]

stopCleanupInterval(S) == [S EXCEPT !.cleanupInterval = FALSE, !.sweepDue = 0]

\* clearTimeout(existing); setTimeout(..., IDLE_TIMEOUT_MS)
resetIdleTimer(S, sessionId) ==
  [S EXCEPT !.idleTimers = Put(@, sessionId, now + IDLE_TIMEOUT_MS)]

\* mutant: pausing drops the session's history
pauseSession_DropHistory(S, sessionId) ==
  IF sessionId \notin DOMAIN S.sessions \/ sessionId \in S.pausedSessions THEN S
  ELSE [S EXCEPT !.pausedSessions = @ \cup {sessionId},
                 !.idleTimers = Remove(@, sessionId),
                 !.sessions[sessionId].messages = <<>>,
                 !.notifications = Append(@, <<"pause", sessionId>>)]

\* mutant: a paused session is paused again
pauseSession_NoGuard(S, sessionId) ==
  IF sessionId \notin DOMAIN S.sessions THEN S
  ELSE [S EXCEPT !.pausedSessions = @ \cup {sessionId},
                 !.idleTimers = Remove(@, sessionId),
                 !.notifications = Append(@, <<"pause", sessionId>>)]

pauseSession(S, sessionId) ==
  IF sessionId \notin DOMAIN S.sessions \/ sessionId \in S.pausedSessions THEN S
  ELSE [S EXCEPT !.pausedSessions = @ \cup {sessionId},
                 !.idleTimers = Remove(@, sessionId),
                 !.notifications = Append(@, <<"pause", sessionId>>)]

\* mutant: the resume observer is not told
resumeSession_NoNotify(S, sessionId) ==
  IF sessionId \notin S.pausedSessions THEN S
  ELSE LET S1 == [S EXCEPT !.pausedSessions = @ \ {sessionId}]
       IN IF sessionId \in DOMAIN S1.sessions
          THEN resetIdleTimer(
                 [S1 EXCEPT !.sessions[sessionId].lastActivity = now], sessionId)
          ELSE S1

resumeSession(S, sessionId) ==
  IF sessionId \notin S.pausedSessions THEN S
  ELSE LET S1 == [S EXCEPT !.pausedSessions = @ \ {sessionId}]
           S2 == IF sessionId \in DOMAIN S1.sessions
                 THEN resetIdleTimer(
                        [S1 EXCEPT !.sessions[sessionId].lastActivity = now],
                        sessionId)
                 ELSE S1
       IN [S2 EXCEPT !.notifications = Append(@, <<"resume", sessionId>>)]

isSessionPaused(S, sessionId) == sessionId \in S.pausedSessions

\* mutant: no idle timer is started for the new session
createSession_NoTimer(S, sessionId, profileName) ==
  LET S1 == startCleanupInterval(S)
      session == [id |-> sessionId, createdAt |-> now, lastActivity |-> now,
                  profileName |-> profileName, messages |-> <<>>]
  IN [S1 EXCEPT !.sessions = Put(@, sessionId, session)]

\* the session createSession(profileName) stores under the generated identifier
createSession(S, sessionId, profileName) ==
  LET S1 == startCleanupInterval(S)
      session == [id |-> sessionId, createdAt |-> now, lastActivity |-> now,
                  profileName |-> profileName, messages |-> <<>>]
  IN resetIdleTimer([S1 EXCEPT !.sessions = Put(@, sessionId, session)], sessionId)

\* sessions.get(sessionId) !== undefined
getSession(S, sessionId) == sessionId \in DOMAIN S.sessions

\* mutant: the session is resumed whether it is paused or not
getOrResumeSession_AlwaysResume(S, sessionId) ==
  IF sessionId \notin DOMAIN S.sessions THEN S
  ELSE LET S1 == resumeSession([S EXCEPT !.pausedSessions = @ \cup {sessionId}],
                               sessionId)
       IN resetIdleTimer([S1 EXCEPT !.sessions[sessionId].lastActivity = now],
                         sessionId)

getOrResumeSession(S, sessionId) ==
  IF sessionId \notin DOMAIN S.sessions THEN S
  ELSE LET S1 == IF sessionId \in S.pausedSessions
                 THEN resumeSession(S, sessionId) ELSE S
       IN resetIdleTimer([S1 EXCEPT !.sessions[sessionId].lastActivity = now],
                         sessionId)

\* addMessage throws Error("Session not found: <id>")
addMessageThrows(S, sessionId) == sessionId \notin DOMAIN S.sessions

SessionNotFound(sessionId) == <<"Session not found: ", sessionId>>

\* mutant: the message is put in front of the history
addMessage_Unshift(S, sessionId, message) ==
  [S EXCEPT !.sessions[sessionId].messages = <<message>> \o @,
            !.sessions[sessionId].lastActivity = now,
            !.idleTimers = Put(@, sessionId, now + IDLE_TIMEOUT_MS)]

\* mutant: the message takes the place of the history
addMessage_Replace(S, sessionId, message) ==
  [S EXCEPT !.sessions[sessionId].messages = <<message>>,
            !.sessions[sessionId].lastActivity = now,
            !.idleTimers = Put(@, sessionId, now + IDLE_TIMEOUT_MS)]

\* mutant: the idle timer is left as it was
addMessage_NoRearm(S, sessionId, message) ==
  LET S1 == IF sessionId \in S.pausedSessions
            THEN resumeSession(S, sessionId) ELSE S
  IN [S1 EXCEPT !.sessions[sessionId].messages = Append(@, message),
                !.sessions[sessionId].lastActivity = now]

\* mutant: the message is pushed to every session's history
addMessage_Broadcast(S, sessionId, message) ==
  LET S1 == resumeSession(S, sessionId)
  IN resetIdleTimer(
       [S1 EXCEPT !.sessions =
          [id \in DOMAIN S1.sessions |->
             [S1.sessions[id] EXCEPT
                !.messages = Append(@, message),
                !.lastActivity = IF id = sessionId THEN now ELSE @]]],
       sessionId)

\* addMessage when it does not throw
addMessage(S, sessionId, message) ==
  LET S1 == IF sessionId \in S.pausedSessions
            THEN resumeSession(S, sessionId) ELSE S
  IN resetIdleTimer(
       [S1 EXCEPT !.sessions[sessionId].messages = Append(@, message),
                  !.sessions[sessionId].lastActivity = now],
       sessionId)

getSessionMessages(S, sessionId) ==
  IF sessionId \in DOMAIN S.sessions THEN S.sessions[sessionId].messages ELSE <<>>

\* mutant: the idle timer of the session is left pending
clearSession_KeepTimer(S, sessionId) ==
  LET S1 == [S EXCEPT !.pausedSessions = @ \ {sessionId},
                      !.sessions = Remove(@, sessionId)]
  IN IF DOMAIN S1.sessions = {} THEN stopCleanupInterval(S1) ELSE S1

\* mutant: the paused flag of the cleared session is kept
clearSession_KeepPaused(S, sessionId) ==
  LET S1 == [S EXCEPT !.idleTimers = Remove(@, sessionId),
                      !.sessions = Remove(@, sessionId)]
  IN IF DOMAIN S1.sessions = {} THEN stopCleanupInterval(S1) ELSE S1

clearSession(S, sessionId) ==
  LET S1 == [S EXCEPT !.idleTimers = Remove(@, sessionId),
                      !.pausedSessions = @ \ {sessionId},
                      !.sessions = Remove(@, sessionId)]
  IN IF DOMAIN S1.sessions = {} THEN stopCleanupInterval(S1) ELSE S1

Message(role, content) == [role |-> role, content |-> content, timestamp |-> now]

(***************************************************************************)
(* Inputs of the collaborators                                             *)
(***************************************************************************)
Word(text, confidence) == [text |-> text, confidence |-> confidence]

\* Requests of the turn pipeline's specification: one connection, sessions of
\* one profile under one generated identifier.  "" is an absent header.
TurnConns == {"c1"}
TurnProfiles == {"", "Alice", "Mallory"}
TurnSessionIds == {"s1"}

\* results of SonioxSpeechClient.transcribeAsync: the recognised words
STTResults ==
  { [words |-> <<>>],
    [words |-> <<Word(<<" ">>, 50)>>],
    [words |-> <<Word(<<"h", "i">>, 95)>>],
    [words |-> <<Word(<<"y", "o">>, 0), Word(<<" ">>, 90)>>] }

\* messages of the errors the collaborators throw (never empty)
ErrorMessages == {"boom", "Soniox down"}

\* cumulative texts runEmbeddedPiAgent passes to onPartialReply
Snapshots == { <<>>, <<"a">>, <<"a", "b">>, <<"b">> }

Payload(text, isError) == [text |-> text, isError |-> isError]

\* results of runEmbeddedPiAgent: payloads and meta.aborted
AgentRunResults ==
  { [payloads |-> <<>>, aborted |-> FALSE],
    [payloads |-> <<>>, aborted |-> TRUE],
    [payloads |-> <<Payload(<<"a", " ">>, FALSE), Payload(<<"x">>, TRUE),
                    Payload(<<"b">>, FALSE)>>, aborted |-> TRUE] }

(***************************************************************************)
(* Wire events.  Every event is a record of the same shape; the fields an  *)
(* event type does not carry hold the empty value.  Timestamps are left    *)
(* out.                                                                    *)
(***************************************************************************)
SystemEvent(status, message) ==
  [type |-> "system", status |-> status, text |-> <<>>, confidence |-> 0,
   done |-> FALSE, message |-> message]

UserEvent(text, confidence) ==
  [type |-> "user", status |-> "", text |-> text, confidence |-> confidence,
   done |-> FALSE, message |-> <<>>]

OpenClawEvent(text, done) ==
  [type |-> "openclaw", status |-> "", text |-> text, confidence |-> 0,
   done |-> done, message |-> <<>>]

TerminalStatuses == {"done", "error", "empty_transcription"}

IsTerminal(e) == e.type = "system" /\ e.status \in TerminalStatuses

(***************************************************************************)
(* One connection: the request being handled and the response so far.      *)
(*   pc            where handleAudioUpload stands                          *)
(*   statusCode, jsonBody, sseOpen, events, ended   the response           *)
(*   totalSize, nChunks, lastEmittedLength          locals of the code     *)
(* and, for the properties, what the collaborators did in this turn:       *)
(*   sttCalls, sttState, sttError, transcript, confidence                  *)
(*   agentCalls, agentState, agentError, nSnapshots, lastSnapshot,         *)
(*   prefixOK (every cumulative text extended the one before), tokens (the *)
(*   onToken calls), appended (addMessage calls that returned)             *)
(***************************************************************************)
IdleConn ==
  [pc |-> "idle", profileName |-> "", sessionId |-> "",
   totalSize |-> 0, nChunks |-> 0,
   statusCode |-> 0, jsonBody |-> "", sseOpen |-> FALSE, events |-> <<>>,
   ended |-> FALSE,
   sttCalls |-> 0, sttState |-> "none", sttError |-> <<>>,
   transcript |-> <<>>, confidence |-> 0,
   agentCalls |-> 0, agentState |-> "none", agentError |-> <<>>,
   appended |-> 0,
   lastEmittedLength |-> 0, nSnapshots |-> 0, lastSnapshot |-> <<>>,
   prefixOK |-> TRUE, tokens |-> <<>>,
   arrivedAt |-> 0, wasPaused |-> FALSE]

InFlight(k) == k.pc \in {"reading", "transcribing", "agent"}

\* res.statusCode = status; res.end(JSON.stringify({ error: body }))
jsonError(k, status, body) ==
  [k EXCEPT !.pc = "closed", !.statusCode = status, !.jsonBody = body,
            !.ended = TRUE]

\* sendSSE(res, event): res.write(formatSSE(event))
sendSSE(k, event) == [k EXCEPT !.events = Append(@, event)]

\* writeSSEHeaders(res): res.writeHead(200, ...)
writeSSEHeaders(k) == [k EXCEPT !.statusCode = 200, !.sseOpen = TRUE]

\* mutant: the stream is left open
endSSE_NoEnd(k) == [k EXCEPT !.pc = "closed"]

\* endSSE(res): res.end()
endSSE(k) == [k EXCEPT !.pc = "closed", !.ended = TRUE]

\* the handler's catch block once the stream is open
sseFail(k, message) == endSSE(sendSSE(k, SystemEvent("error", message)))

(***************************************************************************)
(* Transcription service                                                   *)
(***************************************************************************)
\* mutant: the joined text is returned untrimmed
transcribeAudio_NoTrim(result) ==
  LET text == JoinSpace([i \in 1..Len(result.words) |-> result.words[i].text])
      confidence == IF result.words = <<>> THEN 0 ELSE result.words[1].confidence
  IN [text |-> text, confidence |-> confidence]

\* what transcribeAudio returns for the words the speech client recognised
transcribeAudio(result) ==
  LET text == JoinSpace([i \in 1..Len(result.words) |-> result.words[i].text])
      confidence == IF result.words = <<>> THEN 0 ELSE result.words[1].confidence
  IN [text |-> Trim(text), confidence |-> confidence]

\* mutant: the cause is dropped from the message
transcribeAudioError_Generic(cause) == <<"Soniox transcription failed">>

\* message of the error transcribeAudio throws when the speech client fails
transcribeAudioError(cause) == <<"Soniox transcription failed: ", cause>>

(***************************************************************************)
(* Agent service                                                           *)
(***************************************************************************)
RECURSIVE KeptTexts(_)
KeptTexts(payloads) ==
  IF payloads = <<>> THEN <<>>
  ELSE LET p == Head(payloads)
           t == Trim(p.text)
       IN (IF p.text /= <<>> /\ ~p.isError /\ t /= <<>> THEN <<t>> ELSE <<>>)
          \o KeptTexts(Tail(payloads))

\* mutant: only the first kept payload makes the text
extractResultText_First(result) ==
  LET kept == KeptTexts(result.payloads)
      text == IF kept = <<>> THEN <<>> ELSE kept[1]
  IN IF text = <<>> /\ result.aborted
     THEN [text |-> <<>>, error |-> <<"Response generation was aborted">>]
     ELSE [text |-> text, error |-> <<>>]

\* AgentResponseResult: text <<>> is null, error <<>> is no error field
extractResultText(result) ==
  LET text == JoinSpace(KeptTexts(result.payloads))
  IN IF text = <<>> /\ result.aborted
     THEN [text |-> <<>>, error |-> <<"Response generation was aborted">>]
     ELSE [text |-> text, error |-> <<>>]

\* the handler's StreamingCallback: one openclaw event per token
sseOnToken(k, delta, done) == sendSSE(k, OpenClawEvent(delta, done))

\* a call of onToken(delta, done)
onToken(k, delta, done) ==
  sseOnToken([k EXCEPT !.tokens = Append(@, [delta |-> delta, done |-> done])],
             delta, done)

\* mutant: the cumulative text is passed on unsliced
partialDelta_Whole(text, lastEmittedLength) ==
  IF Len(text) > lastEmittedLength THEN text ELSE <<>>

\* the delta onPartialReply computes from a cumulative text
partialDelta(text, lastEmittedLength) == Slice(text, lastEmittedLength)

\* mutant: lastEmittedLength follows every cumulative text
onPartialReply_AlwaysUpdate(k, text) ==
  LET delta == partialDelta(text, k.lastEmittedLength)
  IN IF delta /= <<>>
     THEN onToken([k EXCEPT !.lastEmittedLength = Len(text)], delta, FALSE)
     ELSE [k EXCEPT !.lastEmittedLength = Len(text)]

\* onPartialReply(payload) of generateAgentResponseStreaming
onPartialReply(k, text) ==
  LET delta == partialDelta(text, k.lastEmittedLength)
  IN IF delta /= <<>>
     THEN onToken([k EXCEPT !.lastEmittedLength = Len(text)], delta, FALSE)
     ELSE k

\* mutant: no final done signal
streamingDone_None(k) == k

\* mutant: the done signal is sent twice
streamingDone_Twice(k) == onToken(onToken(k, <<>>, TRUE), <<>>, TRUE)

\* generateAgentResponseStreaming after runEmbeddedPiAgent resolved
streamingDone(k) == onToken(k, <<>>, TRUE)

\* mutant: the catch block returns a result without the error field
streamingCatch_Swallow(message) == [text |-> <<>>, error |-> <<>>]

\* generateAgentResponseStreaming's catch block
streamingCatch(message) == [text |-> <<>>, error |-> <<message>>]

(***************************************************************************)
(* Audio endpoint                                                          *)
(***************************************************************************)
\* mutant: the session is looked up before the profile is checked
validateAudioRequest_SessionFirst(S, profileName, sessionId) ==
  IF sessionId = ""
    THEN [status |-> 400, body |-> "sessionId query parameter required"]
  ELSE IF ~getSession(S, sessionId)
    THEN [status |-> 404, body |-> "Session not found"]
  ELSE IF profileName = "" THEN [status |-> 400, body |-> "X-Profile header required"]
  ELSE IF profileName \notin AllowedProfiles
    THEN [status |-> 403, body |-> "Profile not allowed"]
  ELSE [status |-> 0, body |-> ""]

\* mutant: a session with a turn in flight takes no second one
validateAudioRequest_RejectBusy(S, profileName, sessionId) ==
  IF profileName = "" THEN [status |-> 400, body |-> "X-Profile header required"]
  ELSE IF profileName \notin AllowedProfiles
    THEN [status |-> 403, body |-> "Profile not allowed"]
  ELSE IF sessionId = ""
    THEN [status |-> 400, body |-> "sessionId query parameter required"]
  ELSE IF ~getSession(S, sessionId)
    THEN [status |-> 404, body |-> "Session not found"]
  ELSE IF \E c \in Conns : InFlight(conn[c]) /\ conn[c].sessionId = sessionId
    THEN [status |-> 409, body |-> "Turn in progress"]
  ELSE [status |-> 0, body |-> ""]

\* the checks before the body is read: [status, body], status 0 when all pass
validateAudioRequest(S, profileName, sessionId) ==
  IF profileName = "" THEN [status |-> 400, body |-> "X-Profile header required"]
  ELSE IF profileName \notin AllowedProfiles
    THEN [status |-> 403, body |-> "Profile not allowed"]
  ELSE IF sessionId = ""
    THEN [status |-> 400, body |-> "sessionId query parameter required"]
  ELSE IF ~getSession(S, sessionId)
    THEN [status |-> 404, body |-> "Session not found"]
  ELSE [status |-> 0, body |-> ""]

\* mutant: a body of exactly the maximum is refused
readChunk_AtLimit(k, size) ==
  LET k1 == [k EXCEPT !.totalSize = @ + size, !.nChunks = @ + 1]
  IN IF k1.totalSize >= MAX_AUDIO_SIZE
     THEN jsonError(k1, 413, "Audio file too large")
     ELSE k1

\* for await (const chunk of req): one chunk
readChunk(k, size) ==
  LET k1 == [k EXCEPT !.totalSize = @ + size, !.nChunks = @ + 1]
  IN IF k1.totalSize > MAX_AUDIO_SIZE
     THEN jsonError(k1, 413, "Audio file too large")
     ELSE k1

\* the body is complete: open the stream and call transcribeAudio
beginTranscription(k) ==
  [sendSSE(writeSSEHeaders(k), SystemEvent("transcribing", <<>>))
     EXCEPT !.pc = "transcribing", !.sttCalls = @ + 1, !.sttState = "running"]

\* mutant: the empty-transcription guard is missing
isEmptyTranscription_Never(transcription) == FALSE

\* the guard !transcription.text
isEmptyTranscription(transcription) == transcription.text = <<>>

\* mutant: the error field of the agent result is not looked at
agentFailed_Never(agentResult) == FALSE

\* the guard agentResult.error
agentFailed(agentResult) == agentResult.error /= <<>>

\* the handler from the transcription to the agent call: [k, S]
afterTranscription(k, S, transcription) ==
  LET k1 == sendSSE([k EXCEPT !.sttState = "returned",
                              !.transcript = transcription.text,
                              !.confidence = transcription.confidence],
                    UserEvent(transcription.text, transcription.confidence))
  IN IF isEmptyTranscription(transcription)
     THEN [k |-> endSSE(sendSSE(k1, SystemEvent("empty_transcription", <<>>))),
           S |-> S]
     ELSE IF addMessageThrows(S, k.sessionId)
     THEN [k |-> sseFail(k1, SessionNotFound(k.sessionId)), S |-> S]
     ELSE [k |-> [sendSSE(k1, SystemEvent("typing", <<>>))
                    EXCEPT !.pc = "agent", !.agentCalls = @ + 1,
                           !.agentState = "running",
                           !.appended = @ + 1],
           S |-> addMessage(S, k.sessionId, Message("user", transcription.text))]

\* agentResult.text || fallback
responseTextOf(agentResult) ==
  IF agentResult.text /= <<>> THEN agentResult.text ELSE FALLBACK_RESPONSE

\* the handler after generateAgentResponseStreaming returned: [k, S]
afterAgent(k, S, agentResult) ==
  IF agentFailed(agentResult)
  THEN [k |-> sseFail(k, agentResult.error), S |-> S]
  ELSE IF addMessageThrows(S, k.sessionId)
  THEN [k |-> sseFail(k, SessionNotFound(k.sessionId)), S |-> S]
  ELSE [k |-> endSSE(sendSSE([k EXCEPT !.appended = @ + 1],
                             SystemEvent("done", <<>>))),
        S |-> addMessage(S, k.sessionId,
                         Message("assistant", responseTextOf(agentResult)))]

(***************************************************************************)
(* Bookkeeping for the properties: which turns ran on a session.           *)
(*   done   the [transcript, reply] of every turn that ended in done       *)
(*   plain  no turn on the session failed or overlapped another one        *)
(*   appends the messages the turns on the session passed to addMessage    *)
(*          calls that returned, as the turns saw them                     *)
(*   calls  the createSession calls that returned the identifier           *)
(***************************************************************************)
NewLog == [done |-> <<>>, plain |-> TRUE, calls |-> 1, appends |-> <<>>]

TurnsInFlight(sessionId) ==
  {c \in Conns : InFlight(conn[c]) /\ conn[c].sessionId = sessionId}

\* the log after connection c moved from k to k2, reply being the text stored
LogStep(log, k, k2, reply) ==
  IF k.sessionId \notin DOMAIN log THEN log
  ELSE LET log1 ==
             IF k2.appended = k.appended THEN log
             ELSE [log EXCEPT ![k.sessionId].appends =
                     Append(@, IF k.pc = "transcribing"
                               THEN [role |-> "user", content |-> k2.transcript]
                               ELSE [role |-> "assistant", content |-> reply])]
       IN IF k2.pc /= "closed" THEN log1
          ELSE IF k2.events /= <<>> /\ k2.events[Len(k2.events)].status = "done"
          THEN [log1 EXCEPT ![k.sessionId].done =
                  Append(@, [transcript |-> k.transcript, reply |-> reply])]
          ELSE [log1 EXCEPT ![k.sessionId].plain = FALSE]

RECURSIVE StoredMessages(_)
StoredMessages(ids) ==
  IF ids = {} THEN 0
  ELSE LET id == CHOOSE x \in ids : TRUE
       IN Len(sessions[id].messages) + StoredMessages(ids \ {id})

\* the histories have room for one more message
MessageRoom(sessionId) ==
  sessionId \in DOMAIN sessions => Len(sessions[sessionId].messages) < MaxMessages

\* a request is taken only while the histories have room for its two messages
HistoryRoom ==
  StoredMessages(DOMAIN sessions)
    + 2 * Cardinality({c \in Conns : InFlight(conn[c])}) + 2 <= MaxHistory

\* a closed connection keeps its response; the working fields of the turn
\* are dropped (the size read is kept: it is what a 413 answers to)
Settle(k) ==
  IF k.pc /= "closed" THEN k
  ELSE [k EXCEPT !.lastEmittedLength = 0, !.nSnapshots = 0,
                 !.lastSnapshot = <<>>, !.prefixOK = TRUE,
                 !.nChunks = IF k.statusCode = 413 THEN @ ELSE 0,
                 !.totalSize = IF k.statusCode = 413 THEN @ ELSE 0]

\* Date.prototype.toISOString of the time t (ms)
toISOString(t) == <<"ISO-8601", t>>

\* no session-info response was written
NoSessionInfo ==
  [statusCode |-> 0, error |-> "", sessionId |-> "", profileName |-> "",
   createdAt |-> <<>>, lastActivity |-> <<>>, messageCount |-> 0]

(***************************************************************************)
(* Service functions called directly, as the unit tests call them: the     *)
(* burst variant of the agent service and the SSE framing.  A frame is the *)
(* sequence of the characters written; fixed pieces of syntax that hold no *)
(* line break are written as one element.                                  *)
(***************************************************************************)
\* characters of the texts framed
FrameChars == {"a", "\n", "\r", "\"", "\\"}

\* JSON.stringify of one character of a string
jsonEscape(ch) ==
  IF ch = "\n" THEN <<"\\", "n">>
  ELSE IF ch = "\r" THEN <<"\\", "r">>
  ELSE IF ch = "\"" THEN <<"\\", "\"">>
  ELSE IF ch = "\\" THEN <<"\\", "\\">>
  ELSE <<ch>>

\* mutant: line feeds are written as they are
jsonString_RawLineFeed(text) ==
  <<"\"">>
  \o Flatten([i \in 1..Len(text) |->
                IF text[i] = "\n" THEN <<"\n">> ELSE jsonEscape(text[i])])
  \o <<"\"">>

\* JSON.stringify of a string value
jsonString(text) ==
  <<"\"">> \o Flatten([i \in 1..Len(text) |-> jsonEscape(text[i])]) \o <<"\"">>

\* JSON.stringify(event): the fields the event's type carries, in the order
\* of the object literal
jsonStringify(event) ==
  <<"{", "\"type\":">> \o jsonString(<<event.type>>)
  \o (IF event.type = "user"
        THEN <<",", "\"text\":">> \o jsonString(event.text)
             \o <<",", "\"confidence\":", ToString(event.confidence)>>
      ELSE IF event.type = "openclaw"
        THEN <<",", "\"text\":">> \o jsonString(event.text)
             \o <<",", "\"done\":", IF event.done THEN "true" ELSE "false">>
      ELSE <<",", "\"status\":">> \o jsonString(<<event.status>>)
           \o (IF event.message = <<>> THEN <<>>
               ELSE <<",", "\"message\":">> \o jsonString(event.message)))
  \o <<"}">>

\* mutant: the frame ends after the data line
formatSSE_NoBlankLine(event) ==
  <<"event: ", event.type, "\n", "data: ">> \o jsonStringify(event) \o <<"\n">>

\* formatSSE(event)
formatSSE(event) ==
  <<"event: ", event.type, "\n", "data: ">> \o jsonStringify(event)
  \o <<"\n", "\n">>

\* the agent run behind generateAgentResponse: it throws, or it resolves
NoRun == [throws |-> "", payloads |-> <<>>, aborted |-> FALSE]

\* generateAgentResponse(params), for the outcome of the run it awaits
generateAgentResponse(run) ==
  IF run.throws /= ""
    THEN [text |-> <<>>, error |-> <<run.throws>>]
    ELSE extractResultText(run)

\* mutant: a result without text is passed to onChunk too
generateAgentResponseBurst_AlwaysChunk(b) ==
  LET result == generateAgentResponse(b.run)
      b1 == [b EXCEPT !.agentLog = Append(@, b.params),
                      !.result = result, !.returned = TRUE]
  IN IF result.error /= <<>> THEN b1
     ELSE [b1 EXCEPT !.chunks = Append(@, [text |-> result.text, done |-> TRUE])]

\* generateAgentResponseBurst(params, onChunk); agentLog is the params
\* generateAgentResponse was called with, chunks the onChunk calls
generateAgentResponseBurst(b) ==
  LET result == generateAgentResponse(b.run)
      b1 == [b EXCEPT !.agentLog = Append(@, b.params),
                      !.result = result, !.returned = TRUE]
  IN IF result.error /= <<>> THEN b1
     ELSE IF result.text /= <<>>
       THEN [b1 EXCEPT !.chunks = Append(@, [text |-> result.text, done |-> TRUE])]
     ELSE b1

\* no direct call
NoCall ==
  [fn |-> "", params |-> "", run |-> NoRun, agentLog |-> <<>>, chunks |-> <<>>,
   result |-> [text |-> <<>>, error |-> <<>>],
   event |-> SystemEvent("", <<>>), written |-> <<>>, returned |-> FALSE]

\* popup.ts module variables when the script is loaded, with the promises of
\* start_recording (invokes, index = the press), the suspended calls of
\* stopAndSend (tasks, first in first out), the listen() calls made (listens,
\* index = the listener, value = the press it was registered for), the
\* listeners registered and not unregistered (listeners), the stop_and_send
\* requests (sends), the pending setTimeout callbacks (timers) and whether
\* the mouse button is held down since a mousedown on the microphone button
InitialPopup ==
  [connected |-> FALSE, sessionId |-> "", isRecording |-> FALSE,
   isProcessing |-> FALSE, error |-> "", recordingReady |-> 0, unlisten |-> 0,
   micLabel |-> "", invokes |-> <<>>, tasks |-> <<>>, listens |-> <<>>,
   listeners |-> {}, sends |-> <<>>, timers |-> 0, ended |-> FALSE,
   held |-> FALSE]

(***************************************************************************)
(* Initial state: a started server, no session, no request.                *)
(***************************************************************************)
Init ==
  /\ now = 0
  /\ sessions = <<>>
  /\ pausedSessions = {}
  /\ idleTimers = <<>>
  /\ cleanupInterval = FALSE
  /\ sweepDue = 0
  /\ notifications = <<>>
  /\ newSessionResponse = [statusCode |-> 0, sessionId |-> "", request |-> ""]
  /\ sessionInfoResponse = NoSessionInfo
  /\ thrown = <<>>
  /\ conn = [c \in Conns |-> IdleConn]
  /\ turnLog = <<>>
  /\ call = NoCall
  /\ popup = InitialPopup

StoreUnchanged == SetStore(Store)

(***************************************************************************)
(* The identifier createSession generates: voice-<Date.now()>-<random>.    *)
(* SessionIds stands for the strings the template can yield.               *)
(***************************************************************************)
\* the runs in which no identifier is generated twice
FreshIds(ids) == ids \ DOMAIN turnLog

\* the template alone: a string generated before comes again only from a
\* call in the millisecond of the one that made it, with the same random part
GeneratedIds(ids) ==
  {id \in ids : \/ id \notin DOMAIN turnLog
                \/ /\ id \in DOMAIN sessions /\ sessions[id].createdAt = now
                   /\ turnLog[id].calls < MaxRepeats}

(***************************************************************************)
(* POST /session/new                                                       *)
(***************************************************************************)
\* mutant: the allow-list is not consulted
handleNewSession_NoAllowList(profileName, ids) ==
  /\ IF profileName = ""
     THEN /\ newSessionResponse' = [statusCode |-> 400, sessionId |-> "",
                                    request |-> profileName]
          /\ StoreUnchanged
          /\ UNCHANGED turnLog
     ELSE \E sessionId \in ids :
          /\ SetStore(createSession(Store, sessionId, profileName))
          /\ newSessionResponse' = [statusCode |-> 200, sessionId |-> sessionId,
                                    request |-> profileName]
          /\ turnLog' = Put(turnLog, sessionId,
                            IF sessionId \in DOMAIN turnLog
                            THEN [NewLog EXCEPT !.calls = turnLog[sessionId].calls + 1]
                            ELSE NewLog)
  /\ sessionInfoResponse' = NoSessionInfo
  /\ UNCHANGED <<now, thrown, conn>>
  /\ UNCHANGED <<call, popup>>

\* newSessionResponse.request is the profileName of the request body ("" when
\* the body has none), kept beside the answer it received
handleNewSession(profileName, ids) ==
  /\ IF profileName = ""
     THEN /\ newSessionResponse' = [statusCode |-> 400, sessionId |-> "",
                                    request |-> profileName]
          /\ StoreUnchanged
          /\ UNCHANGED turnLog
     ELSE IF profileName \notin AllowedProfiles
     THEN /\ newSessionResponse' = [statusCode |-> 403, sessionId |-> "",
                                    request |-> profileName]
          /\ StoreUnchanged
          /\ UNCHANGED turnLog
     ELSE \E sessionId \in ids :
          /\ SetStore(createSession(Store, sessionId, profileName))
          /\ newSessionResponse' = [statusCode |-> 200, sessionId |-> sessionId,
                                    request |-> profileName]
          /\ turnLog' = Put(turnLog, sessionId,
                            IF sessionId \in DOMAIN turnLog
                            THEN [NewLog EXCEPT !.calls = turnLog[sessionId].calls + 1]
                            ELSE NewLog)
  /\ sessionInfoResponse' = NoSessionInfo
  /\ UNCHANGED <<now, thrown, conn>>
  /\ UNCHANGED <<call, popup>>

(***************************************************************************)
(* GET /session?id=<id>                                                    *)
(***************************************************************************)
\* the body of the 200 answer
sessionInfo(session) ==
  [statusCode |-> 200, error |-> "", sessionId |-> session.id,
   profileName |-> session.profileName,
   createdAt |-> toISOString(session.createdAt),
   lastActivity |-> toISOString(session.lastActivity),
   messageCount |-> Len(session.messages)]

\* mutant: the lookup is made with getOrResumeSession
handleGetSession_Resume(sessionId) ==
  /\ sessionId \in DOMAIN sessions
  /\ SetStore(getOrResumeSession(Store, sessionId))
  /\ sessionInfoResponse' = sessionInfo(sessions'[sessionId])
  /\ UNCHANGED <<now, newSessionResponse, thrown, conn, turnLog>>
  /\ UNCHANGED <<call, popup>>

handleGetSession(sessionId) ==
  /\ sessionInfoResponse' =
       IF sessionId = ""
       THEN [NoSessionInfo EXCEPT !.statusCode = 400, !.error = "Session ID required"]
       ELSE IF ~getSession(Store, sessionId)
       THEN [NoSessionInfo EXCEPT !.statusCode = 404, !.error = "Session not found"]
       ELSE sessionInfo(sessions[sessionId])
  /\ StoreUnchanged
  /\ UNCHANGED <<now, newSessionResponse, thrown, conn, turnLog>>
  /\ UNCHANGED <<call, popup>>

(***************************************************************************)
(* clearSession(sessionId), called by the embedding plugin                 *)
(***************************************************************************)
ClearSession(sessionId) ==
  /\ SetStore(clearSession(Store, sessionId))
  /\ turnLog' = IF sessionId \in DOMAIN sessions
                THEN [turnLog EXCEPT ![sessionId].done = <<>>,
                                     ![sessionId].appends = <<>>,
                                     ![sessionId].plain = FALSE]
                ELSE turnLog
  /\ sessionInfoResponse' = NoSessionInfo
  /\ UNCHANGED <<now, thrown, newSessionResponse, conn>>
  /\ UNCHANGED <<call, popup>>

(***************************************************************************)
(* POST /audio?sessionId=<id>                                              *)
(***************************************************************************)
\* the request arrives and is validated; arrivedAt and wasPaused record the
\* time of the request and whether its session was paused then
StartRequest(c, profileName, sessionId) ==
  /\ ~InFlight(conn[c])
  /\ HistoryRoom
  /\ LET v == validateAudioRequest(Store, profileName, sessionId)
         k == [IdleConn EXCEPT !.profileName = profileName,
                               !.sessionId = sessionId]
     IN IF v.status /= 0
        THEN /\ conn' = [conn EXCEPT ![c] = Settle(jsonError(k, v.status, v.body))]
             /\ UNCHANGED turnLog
        ELSE /\ conn' = [conn EXCEPT ![c] =
                               [k EXCEPT !.pc = "reading", !.arrivedAt = now,
                                         !.wasPaused = isSessionPaused(Store, sessionId)]]
             /\ turnLog' = IF TurnsInFlight(sessionId) /= {}
                           THEN [turnLog EXCEPT ![sessionId].plain = FALSE]
                           ELSE turnLog
  /\ StoreUnchanged
  /\ sessionInfoResponse' = NoSessionInfo
  /\ UNCHANGED <<now, thrown, newSessionResponse>>
  /\ UNCHANGED <<call, popup>>

\* one chunk of the body arrives
ReadChunk(c, size) ==
  /\ conn[c].pc = "reading"
  /\ conn[c].nChunks < MaxChunks
  /\ LET k2 == readChunk(conn[c], size)
     IN /\ conn' = [conn EXCEPT ![c] = Settle(k2)]
        /\ turnLog' = LogStep(turnLog, conn[c], k2, <<>>)
  /\ StoreUnchanged
  /\ sessionInfoResponse' = NoSessionInfo
  /\ UNCHANGED <<now, thrown, newSessionResponse>>
  /\ UNCHANGED <<call, popup>>

\* the body ends
EndOfBody(c) ==
  /\ conn[c].pc = "reading"
  /\ conn' = [conn EXCEPT ![c] = beginTranscription(conn[c])]
  /\ StoreUnchanged
  /\ sessionInfoResponse' = NoSessionInfo
  /\ UNCHANGED <<now, thrown, newSessionResponse, turnLog>>
  /\ UNCHANGED <<call, popup>>

\* mutant: a session that is gone is created again for the user message
TranscribeReturn_Recreate(c, result) ==
  /\ conn[c].pc = "transcribing"
  /\ LET S0 == IF addMessageThrows(Store, conn[c].sessionId)
               THEN createSession(Store, conn[c].sessionId, conn[c].profileName)
               ELSE Store
         r == afterTranscription(conn[c], S0, transcribeAudio(result))
     IN /\ conn' = [conn EXCEPT ![c] = Settle(r.k)]
        /\ SetStore(r.S)
        /\ turnLog' = LogStep(turnLog, conn[c], r.k, <<>>)
  /\ sessionInfoResponse' = NoSessionInfo
  /\ UNCHANGED <<now, thrown, newSessionResponse>>
  /\ UNCHANGED <<call, popup>>

\* transcribeAudio resolves
TranscribeReturn(c, result) ==
  /\ conn[c].pc = "transcribing"
  /\ LET r == afterTranscription(conn[c], Store, transcribeAudio(result))
     IN /\ conn' = [conn EXCEPT ![c] = Settle(r.k)]
        /\ SetStore(r.S)
        /\ turnLog' = LogStep(turnLog, conn[c], r.k, <<>>)
  /\ sessionInfoResponse' = NoSessionInfo
  /\ UNCHANGED <<now, thrown, newSessionResponse>>
  /\ UNCHANGED <<call, popup>>

\* mutant: a failed transcription is tried once more
TranscribeThrow_Retry(c, cause) ==
  /\ conn[c].pc = "transcribing"
  /\ conn[c].sttCalls < 2
  /\ conn' = [conn EXCEPT ![c].sttCalls = @ + 1]
  /\ StoreUnchanged
  /\ sessionInfoResponse' = NoSessionInfo
  /\ UNCHANGED <<now, thrown, newSessionResponse, turnLog>>
  /\ UNCHANGED <<call, popup>>

\* transcribeAudio rejects
TranscribeThrow(c, cause) ==
  /\ conn[c].pc = "transcribing"
  /\ LET k2 == sseFail([conn[c] EXCEPT !.sttState = "thrown",
                                       !.sttError = transcribeAudioError(cause)],
                       transcribeAudioError(cause))
     IN /\ conn' = [conn EXCEPT ![c] = Settle(k2)]
        /\ turnLog' = LogStep(turnLog, conn[c], k2, <<>>)
  /\ StoreUnchanged
  /\ sessionInfoResponse' = NoSessionInfo
  /\ UNCHANGED <<now, thrown, newSessionResponse>>
  /\ UNCHANGED <<call, popup>>

\* the agent run reports a cumulative text
AgentPartial(c, text) ==
  /\ conn[c].pc = "agent"
  /\ conn[c].nSnapshots < MaxSnapshots
  /\ LET k == conn[c]
         k2 == onPartialReply(k, text)
     IN conn' = [conn EXCEPT ![c] =
                   [k2 EXCEPT !.nSnapshots = @ + 1,
                              !.lastSnapshot = text,
                              !.prefixOK = k.prefixOK
                                 /\ Len(text) >= Len(k.lastSnapshot)
                                 /\ SubSeq(text, 1, Len(k.lastSnapshot))
                                      = k.lastSnapshot]]
  /\ StoreUnchanged
  /\ sessionInfoResponse' = NoSessionInfo
  /\ UNCHANGED <<now, thrown, newSessionResponse, turnLog>>
  /\ UNCHANGED <<call, popup>>

\* the agent run resolves
AgentReturn(c, result) ==
  /\ conn[c].pc = "agent"
  /\ LET agentResult == extractResultText(result)
         k == [conn[c] EXCEPT !.agentState = "returned",
                              !.agentError = agentResult.error]
         r == afterAgent(streamingDone(k), Store, agentResult)
     IN /\ conn' = [conn EXCEPT ![c] = Settle(r.k)]
        /\ SetStore(r.S)
        /\ turnLog' = LogStep(turnLog, conn[c], r.k, responseTextOf(agentResult))
  /\ sessionInfoResponse' = NoSessionInfo
  /\ UNCHANGED <<now, thrown, newSessionResponse>>
  /\ UNCHANGED <<call, popup>>

\* the agent run, or its preparation, throws
AgentThrow(c, message) ==
  /\ conn[c].pc = "agent"
  /\ LET agentResult == streamingCatch(message)
         k == [conn[c] EXCEPT !.agentState = "thrown",
                              !.agentError = agentResult.error]
         r == afterAgent(k, Store, agentResult)
     IN /\ conn' = [conn EXCEPT ![c] = Settle(r.k)]
        /\ SetStore(r.S)
        /\ turnLog' = LogStep(turnLog, conn[c], r.k, <<>>)
  /\ sessionInfoResponse' = NoSessionInfo
  /\ UNCHANGED <<now, thrown, newSessionResponse>>
  /\ UNCHANGED <<call, popup>>

(***************************************************************************)
(* The session manager under time: direct calls of its exported functions, *)
(* the clock, the idle timers and the sweep interval.                      *)
(***************************************************************************)
\* the clock advances by half the idle timeout
TickStep == IDLE_TIMEOUT_MS \div 2

Tick ==
  /\ now < MaxTicks * TickStep
  /\ now' = now + TickStep
  /\ StoreUnchanged
  /\ sessionInfoResponse' = NoSessionInfo
  /\ UNCHANGED <<newSessionResponse, thrown, conn, turnLog>>
  /\ UNCHANGED <<call, popup>>

\* the callback resetIdleTimer installed for sessionId
idleTimerCallback(S, sessionId) ==
  IF sessionId \in DOMAIN S.sessions /\ sessionId \notin S.pausedSessions
  THEN pauseSession(S, sessionId)
  ELSE S

\* an idle timer is due and its callback runs
IdleTimerFires(sessionId) ==
  /\ sessionId \in DOMAIN idleTimers
  /\ idleTimers[sessionId] <= now
  /\ SetStore(idleTimerCallback(Store, sessionId))
  /\ sessionInfoResponse' = NoSessionInfo
  /\ UNCHANGED <<now, newSessionResponse, thrown, conn, turnLog>>
  /\ UNCHANGED <<call, popup>>

\* mutant: a session idle for exactly the timeout is not yet idle
sweepFindsIdle_Strict(S, sessionId) ==
  now - S.sessions[sessionId].lastActivity > IDLE_TIMEOUT_MS

\* the test of the sweep: idleMs >= IDLE_TIMEOUT_MS
sweepFindsIdle(S, sessionId) ==
  now - S.sessions[sessionId].lastActivity >= IDLE_TIMEOUT_MS

\* the body of the interval callback over the sessions ids still to visit
\* (the order of the visit is the Map's; only the order of the pause
\* notifications depends on it)
RECURSIVE sweep(_, _)
sweep(S, ids) ==
  IF ids = {} THEN S
  ELSE LET id == CHOOSE x \in ids : TRUE
           S1 == IF id \in S.pausedSessions THEN S
                 ELSE IF sweepFindsIdle(S, id) THEN pauseSession(S, id)
                 ELSE S
       IN sweep(S1, ids \ {id})

\* the interval is due and its callback runs; setInterval rearms it
SweepTick ==
  /\ cleanupInterval
  /\ sweepDue <= now
  /\ SetStore([sweep(Store, DOMAIN sessions)
                EXCEPT !.sweepDue = now + CHECK_INTERVAL_MS])
  /\ sessionInfoResponse' = NoSessionInfo
  /\ UNCHANGED <<now, newSessionResponse, thrown, conn, turnLog>>
  /\ UNCHANGED <<call, popup>>

\* mutant: an unknown identifier gets a session of its own
AddMessageCall_Upsert(sessionId, content) ==
  /\ MessageRoom(sessionId)
  /\ thrown' = <<>>
  /\ SetStore(addMessage(IF addMessageThrows(Store, sessionId)
                         THEN createSession(Store, sessionId, "")
                         ELSE Store,
                         sessionId, Message("user", content)))
  /\ sessionInfoResponse' = NoSessionInfo
  /\ UNCHANGED <<now, newSessionResponse, conn, turnLog>>
  /\ UNCHANGED <<call, popup>>

\* addMessage(sessionId, message) called directly
AddMessageCall(sessionId, content) ==
  /\ MessageRoom(sessionId)
  /\ IF addMessageThrows(Store, sessionId)
     THEN thrown' = SessionNotFound(sessionId) /\ StoreUnchanged
     ELSE /\ thrown' = <<>>
          /\ SetStore(addMessage(Store, sessionId, Message("user", content)))
  /\ turnLog' = IF sessionId \in DOMAIN turnLog
                THEN [turnLog EXCEPT ![sessionId].plain = FALSE]
                ELSE turnLog
  /\ sessionInfoResponse' = NoSessionInfo
  /\ UNCHANGED <<now, newSessionResponse, conn>>
  /\ UNCHANGED <<call, popup>>

\* getOrResumeSession(sessionId) called directly
GetOrResumeSessionCall(sessionId) ==
  /\ SetStore(getOrResumeSession(Store, sessionId))
  /\ thrown' = <<>>
  /\ sessionInfoResponse' = NoSessionInfo
  /\ UNCHANGED <<now, newSessionResponse, conn, turnLog>>
  /\ UNCHANGED <<call, popup>>

\* cleanupAll(): shutdown
cleanupAll(S) ==
  [stopCleanupInterval(S) EXCEPT !.idleTimers = <<>>, !.pausedSessions = {},
                                 !.sessions = <<>>]

CleanupAll ==
  /\ sessions /= <<>>
  /\ SetStore(cleanupAll(Store))
  /\ turnLog' = [id \in DOMAIN turnLog |->
                   [turnLog[id] EXCEPT !.done = <<>>, !.appends = <<>>, !.plain = FALSE]]
  /\ sessionInfoResponse' = NoSessionInfo
  /\ UNCHANGED <<now, newSessionResponse, thrown, conn>>
  /\ UNCHANGED <<call, popup>>

\* profiles of the create-session requests of these runs
StoreProfiles == {"Alice", "Bob"}

\* the session manager; fresh: no identifier is generated twice
StoreNext(fresh) ==
  \/ \E p \in StoreProfiles :
       handleNewSession(p, IF fresh THEN FreshIds(SessionIds)
                                    ELSE GeneratedIds(SessionIds))
  \/ \E id \in SessionIds : ClearSession(id)
  \/ \E id \in SessionIds : AddMessageCall(id, <<"h", "i">>)
  \/ \E id \in SessionIds : GetOrResumeSessionCall(id)
  \/ \E id \in SessionIds : IdleTimerFires(id)
  \/ SweepTick
  \/ Tick
  \/ CleanupAll

\* the server with requests on the connections conns, sessions under the
\* identifiers ids and the profile names profiles
ServerNext(conns, ids, profiles) ==
  \/ \E p \in profiles : handleNewSession(p, FreshIds(ids))
  \/ \E id \in SessionIds : ClearSession(id)
  \/ \E c \in conns, p \in profiles, id \in SessionIdParams :
       StartRequest(c, p, id)
  \/ \E c \in conns, size \in ChunkSizes : ReadChunk(c, size)
  \/ \E c \in conns : EndOfBody(c)
  \/ \E c \in conns, r \in STTResults : TranscribeReturn(c, r)
  \/ \E c \in conns, m \in ErrorMessages : TranscribeThrow(c, m)
  \/ \E c \in conns, t \in Snapshots : AgentPartial(c, t)
  \/ \E c \in conns, r \in AgentRunResults : AgentReturn(c, r)
  \/ \E c \in conns, m \in ErrorMessages : AgentThrow(c, m)

Next == ServerNext(TurnConns, TurnSessionIds, TurnProfiles)

Spec == Init /\ [][Next]_vars

\* the session manager under time, no identifier generated twice
NextIdle == StoreNext(TRUE)

SpecIdle == Init /\ [][NextIdle]_vars

\* the session manager under time with the session-info endpoint
NextInfo ==
  \/ StoreNext(TRUE)
  \/ \E id \in SessionIdParams : handleGetSession(id)

SpecInfo == Init /\ [][NextInfo]_vars

\* the session manager under time, identifiers as the template yields them
NextIds == StoreNext(FALSE)

SpecIds == Init /\ [][NextIds]_vars

\* transcription results and agent results of the overlapping turns: two
\* transcripts and two replies that can be told apart
OverlapSTTResults ==
  { [words |-> <<Word(<<"h", "i">>, 95)>>],
    [words |-> <<Word(<<"y", "o">>, 0), Word(<<" ">>, 90)>>] }

OverlapRunResults ==
  { [payloads |-> <<>>, aborted |-> FALSE],
    [payloads |-> <<Payload(<<"a", " ">>, FALSE), Payload(<<"x">>, TRUE),
                    Payload(<<"b">>, FALSE)>>, aborted |-> TRUE] }

\* requests of the allowed profiles profiles on the connections conns for
\* the sessions ids, each turn suspended at its collaborator calls while the
\* others run
TurnsNext(conns, ids, profiles) ==
  \/ \E p \in profiles : handleNewSession(p, FreshIds(ids))
  \/ \E c \in conns, p \in profiles, id \in ids : StartRequest(c, p, id)
  \/ \E c \in conns : EndOfBody(c)
  \/ \E c \in conns, r \in OverlapSTTResults : TranscribeReturn(c, r)
  \/ \E c \in conns : TranscribeThrow(c, "boom")
  \/ \E c \in conns, r \in OverlapRunResults : AgentReturn(c, r)
  \/ \E c \in conns : AgentThrow(c, "boom")

\* two connections, one session
NextOverlap == TurnsNext(Conns, TurnSessionIds, {"Alice"})

SpecOverlap == Init /\ [][NextOverlap]_vars

\* two connections, two sessions
NextSessions == TurnsNext(Conns, SessionIds, {"Alice"})

SpecSessions == Init /\ [][NextSessions]_vars

\* one connection, one session, callers of every allowed profile
NextProfiles == TurnsNext(TurnConns, TurnSessionIds, AllowedProfiles)

SpecProfiles == Init /\ [][NextProfiles]_vars

\* the server under time: turns of one allowed profile on a session that the
\* idle timer or the sweep may have paused
NextPaused ==
  \/ ServerNext(TurnConns, TurnSessionIds, {"Alice"})
  \/ \E id \in TurnSessionIds : IdleTimerFires(id)
  \/ SweepTick
  \/ Tick

SpecPaused == Init /\ [][NextPaused]_vars

(***************************************************************************)
(* Direct calls: the arguments are drawn at the start, the call is one     *)
(* step.                                                                   *)
(***************************************************************************)
RECURSIVE SeqsUpTo(_, _)
SeqsUpTo(S, n) ==
  IF n = 0 THEN {<<>>}
  ELSE LET shorter == SeqsUpTo(S, n - 1)
       IN shorter \cup {Append(q, x) : q \in shorter, x \in S}

\* payloads of the runs behind the burst calls
BurstPayloads ==
  { Payload(<<"a">>, FALSE), Payload(<<" ">>, FALSE), Payload(<<>>, FALSE),
    Payload(<<"x">>, TRUE) }

BurstRuns ==
  { [throws |-> "", payloads |-> ps, aborted |-> ab] :
      ps \in SeqsUpTo(BurstPayloads, MaxPayloads), ab \in BOOLEAN }
  \cup { [throws |-> m, payloads |-> <<>>, aborted |-> FALSE] : m \in ErrorMessages }

BurstParams == {"agent:voice:s1", "agent:voice:s2"}

FrameTexts == SeqsUpTo(FrameChars, MaxTextLen)

\* events handed to sendSSE
FrameEvents ==
  { UserEvent(t, 95) : t \in FrameTexts }
  \cup { OpenClawEvent(t, d) : t \in FrameTexts, d \in BOOLEAN }
  \cup { SystemEvent(st, m) :
           st \in {"transcribing", "done", "error"},
           m \in {<<>>, <<"boom">>, <<"line 1", "\n", "line 2">>} }

InitCalls ==
  /\ now = 0
  /\ sessions = <<>>
  /\ pausedSessions = {}
  /\ idleTimers = <<>>
  /\ cleanupInterval = FALSE
  /\ sweepDue = 0
  /\ notifications = <<>>
  /\ newSessionResponse = [statusCode |-> 0, sessionId |-> "", request |-> ""]
  /\ sessionInfoResponse = NoSessionInfo
  /\ thrown = <<>>
  /\ conn = [c \in Conns |-> IdleConn]
  /\ turnLog = <<>>
  /\ popup = InitialPopup
  /\ \/ \E p \in BurstParams, r \in BurstRuns :
          call = [NoCall EXCEPT !.fn = "generateAgentResponseBurst",
                                !.params = p, !.run = r]
     \/ \E e \in FrameEvents :
          call = [NoCall EXCEPT !.fn = "sendSSE", !.event = e]

\* await generateAgentResponseBurst(params, onChunk)
BurstCall ==
  /\ call.fn = "generateAgentResponseBurst"
  /\ ~call.returned
  /\ call' = generateAgentResponseBurst(call)
  /\ UNCHANGED <<now, sessions, pausedSessions, idleTimers, cleanupInterval,
                 sweepDue, notifications, newSessionResponse,
                 sessionInfoResponse, thrown, conn, turnLog, popup>>

\* sendSSE(res, event): res.write(formatSSE(event)); written is what res.write
\* was called with
SendSSECall ==
  /\ call.fn = "sendSSE"
  /\ ~call.returned
  /\ call' = [call EXCEPT !.written = Append(@, formatSSE(call.event)),
                          !.returned = TRUE]
  /\ UNCHANGED <<now, sessions, pausedSessions, idleTimers, cleanupInterval,
                 sweepDue, notifications, newSessionResponse,
                 sessionInfoResponse, thrown, conn, turnLog, popup>>

NextCalls == BurstCall \/ SendSSECall

SpecCalls == InitCalls /\ [][NextCalls]_vars

(***************************************************************************)
(* The desktop client's popup window (popup.ts).  A handler runs to its    *)
(* first await in one step; the continuation of an await is a task that    *)
(* runs before the next event is handled (microtasks before events).       *)
(* The user and openclaw voice events change only the exchange element,    *)
(* which is not modelled.                                                  *)
(***************************************************************************)
MaxPresses == 2
MaxListeners == 2

serverVars == <<now, sessions, pausedSessions, idleTimers, cleanupInterval,
                sweepDue, notifications, newSessionResponse,
                sessionInfoResponse, thrown, conn, turnLog, call>>

\* the statuses the voice-event listener has a case for
ListenerStatuses == {"transcribing", "typing", "done", "empty_transcription", "error"}

\* the sequence without its i-th element
RemoveAt(seq, i) == SubSeq(seq, 1, i - 1) \o SubSeq(seq, i + 1, Len(seq))

\* a suspended stopAndSend whose awaited start_recording promise is settled
RunnableTasks(P) ==
  { i \in DOMAIN P.tasks :
      P.tasks[i].pc = "recordingReady" /\ P.invokes[P.tasks[i].promise] /= "pending" }

\* the stopAndSend calls suspended at `await listen(...)`
ListenTasks(P) == { i \in DOMAIN P.tasks : P.tasks[i].pc = "listen" }

FirstOf(S) == CHOOSE i \in S : \A j \in S : i <= j

\* showError(msg)
showError(P, msg) == [P EXCEPT !.error = msg]

\* updateStatus(isConnected)
updateStatus(P, isConnected) ==
  [P EXCEPT !.connected = isConnected,
            !.micLabel = IF isConnected THEN "Hold to Speak" ELSE "Disconnected"]

\* resetAfterProcessing()
resetAfterProcessing(P) ==
  [P EXCEPT !.isProcessing = FALSE,
            !.micLabel = "Hold to Speak",
            !.listeners = IF P.unlisten /= 0 THEN @ \ {P.unlisten} ELSE @,
            !.unlisten = 0]

\* startRecording() up to `await recordingReady`
startRecording(P) ==
  IF ~P.connected \/ P.isProcessing \/ P.sessionId = "" THEN P
  ELSE [P EXCEPT !.isRecording = TRUE,
                 !.micLabel = "Listening...",
                 !.invokes = Append(@, "pending"),
                 !.recordingReady = Len(P.invokes) + 1]

\* stopAndSend() from `isRecording = false` to `await listen(...)`, in the
\* call made on the event e for press p
stopAndSendProcess(P, p, e) ==
  [P EXCEPT !.isRecording = FALSE,
            !.micLabel = "Processing...",
            !.isProcessing = TRUE,
            !.ended = FALSE,
            !.listeners = IF P.unlisten /= 0 THEN @ \ {P.unlisten} ELSE @,
            !.unlisten = 0,
            !.listens = Append(@, p),
            !.tasks = Append(@, [pc |-> "listen", promise |-> p,
                                 listener |-> Len(P.listens) + 1,
                                 event |-> e])]

\* stopAndSend() up to its first await, called on the event e
stopAndSend(P, e) ==
  IF ~P.isRecording \/ P.sessionId = "" THEN P
  ELSE IF P.recordingReady /= 0
  THEN [P EXCEPT !.tasks = Append(@, [pc |-> "recordingReady",
                                      promise |-> P.recordingReady,
                                      listener |-> 0,
                                      event |-> e])]
  ELSE stopAndSendProcess(P, Len(P.invokes), e)

\* stopAndSend() after `await recordingReady`, for the suspended call i
stopAndSendResume(P, i) ==
  LET t == P.tasks[i]
      P1 == [P EXCEPT !.recordingReady = 0, !.tasks = RemoveAt(@, i)]
  IN IF P.invokes[t.promise] = "rejected" THEN P1
     ELSE stopAndSendProcess(P1, t.promise, t.event)

\* stopAndSend() after `await listen(...)`, for the suspended call i: the
\* listener is registered, kept in unlisten, and stop_and_send is invoked
stopAndSendInvoke(P, i) ==
  LET t == P.tasks[i]
  IN [P EXCEPT !.unlisten = t.listener,
               !.listeners = @ \cup {t.listener},
               !.tasks = RemoveAt(@, i),
               !.sends = Append(@, [press |-> t.promise, state |-> "inflight",
                                    event |-> t.event])]

\* the callback given to listen('voice-event', ...), for a system event
listener(P, status) ==
  CASE status = "transcribing" -> [P EXCEPT !.micLabel = "Transcribing..."]
    [] status = "typing" -> [P EXCEPT !.micLabel = "Agent thinking..."]
    [] status = "done" -> resetAfterProcessing(P)
    [] status = "empty_transcription" ->
         [P EXCEPT !.micLabel = "No speech detected", !.timers = @ + 1]
    [] status = "error" -> resetAfterProcessing(showError(P, "Processing failed"))
    [] OTHER -> P

\* the event is given to each of the n listeners registered when it arrives
RECURSIVE Dispatch(_, _, _)
Dispatch(P, n, status) ==
  IF n = 0 THEN P ELSE Dispatch(listener(P, status), n - 1, status)

\* loadSettings() -> testConnection(): the last attempt's result; a
\* successful one creates the session
testConnection(success) ==
  /\ ~popup.connected /\ popup.error = ""
  /\ popup' = IF success
                THEN [updateStatus(popup, TRUE) EXCEPT !.sessionId = "session"]
                ELSE showError(updateStatus(popup, FALSE), "Connection failed")
  /\ UNCHANGED serverVars

\* the calls of stopAndSend that passed its guard: those that called listen()
\* and those still suspended before it
StopsMade(P) ==
  Len(P.listens) + Cardinality({ i \in DOMAIN P.tasks : P.tasks[i].pc = "recordingReady" })

\* micButton mousedown: startRecording()
MouseDown ==
  /\ RunnableTasks(popup) = {}
  /\ startRecording(popup) = popup \/ Len(popup.invokes) < MaxPresses
  /\ popup' = [startRecording(popup) EXCEPT !.held = TRUE]
  /\ popup' /= popup
  /\ UNCHANGED serverVars

\* micButton mouseup, after a mousedown: stopAndSend()
MouseUp ==
  /\ RunnableTasks(popup) = {}
  /\ popup.held
  /\ stopAndSend(popup, "mouseup") = popup
       \/ StopsMade(popup) < MaxListeners
  /\ popup' = [stopAndSend(popup, "mouseup") EXCEPT !.held = FALSE]
  /\ UNCHANGED serverVars

\* micButton mouseleave: stopAndSend() if isRecording
MouseLeave ==
  /\ RunnableTasks(popup) = {}
  /\ StopsMade(popup) < MaxListeners
  /\ popup.isRecording
  /\ popup' = stopAndSend(popup, "mouseleave")
  /\ popup' /= popup
  /\ UNCHANGED serverVars

\* start_recording resolves: startRecording's await returns
StartResolved(p) ==
  /\ RunnableTasks(popup) = {}
  /\ p \in DOMAIN popup.invokes /\ popup.invokes[p] = "pending"
  /\ popup' = [popup EXCEPT !.invokes[p] = "resolved"]
  /\ UNCHANGED serverVars

\* start_recording rejects: startRecording's catch
StartRejected(p) ==
  /\ RunnableTasks(popup) = {}
  /\ p \in DOMAIN popup.invokes /\ popup.invokes[p] = "pending"
  /\ popup' = showError([popup EXCEPT !.invokes[p] = "rejected",
                                      !.isRecording = FALSE,
                                      !.recordingReady = 0,
                                      !.micLabel = "Error"],
                        "Recording failed")
  /\ UNCHANGED serverVars

\* the next suspended stopAndSend whose promise is settled goes on
RunTask ==
  /\ RunnableTasks(popup) /= {}
  /\ popup' = stopAndSendResume(popup, FirstOf(RunnableTasks(popup)))
  /\ UNCHANGED serverVars

\* listen() resolves for the oldest pending registration
ListenResolved ==
  /\ RunnableTasks(popup) = {}
  /\ ListenTasks(popup) /= {}
  /\ popup' = stopAndSendInvoke(popup, FirstOf(ListenTasks(popup)))
  /\ UNCHANGED serverVars

\* a system voice event of the request i arrives
VoiceEvent(i, status) ==
  /\ RunnableTasks(popup) = {}
  /\ i \in DOMAIN popup.sends /\ popup.sends[i].state = "inflight"
  /\ LET P1 == Dispatch(popup, Cardinality(popup.listeners), status)
     IN popup' = IF status \in TerminalStatuses
                   THEN [P1 EXCEPT !.sends[i].state = "ended", !.ended = TRUE]
                   ELSE P1
  /\ popup' /= popup
  /\ UNCHANGED serverVars

\* stop_and_send rejects: the catch of the invoke
SendRejected(i) ==
  /\ RunnableTasks(popup) = {}
  /\ i \in DOMAIN popup.sends /\ popup.sends[i].state = "inflight"
  /\ popup' = [resetAfterProcessing(showError(popup, "Processing failed"))
                 EXCEPT !.sends[i].state = "rejected", !.ended = TRUE]
  /\ UNCHANGED serverVars

\* setTimeout(() => resetAfterProcessing(), 1500) is due
TimerFires ==
  /\ RunnableTasks(popup) = {}
  /\ popup.timers > 0
  /\ popup' = [resetAfterProcessing(popup) EXCEPT !.timers = @ - 1]
  /\ UNCHANGED serverVars

StartSettles == \E p \in 1..MaxPresses : StartResolved(p) \/ StartRejected(p)

TurnEnds ==
  \E i \in 1..MaxListeners :
    \/ \E status \in TerminalStatuses : VoiceEvent(i, status)
    \/ SendRejected(i)

NextPopup ==
  \/ \E success \in BOOLEAN : testConnection(success)
  \/ MouseDown
  \/ MouseUp
  \/ MouseLeave
  \/ \E p \in 1..MaxPresses : StartResolved(p)
  \/ \E p \in 1..MaxPresses : StartRejected(p)
  \/ RunTask
  \/ ListenResolved
  \/ \E i \in 1..MaxListeners, status \in ListenerStatuses : VoiceEvent(i, status)
  \/ \E i \in 1..MaxListeners : SendRejected(i)
  \/ TimerFires

SpecPopup == Init /\ [][NextPopup]_vars

\* every reply of the host arrives, every task runs, every timer fires and
\* every request ends
SpecPopupFair ==
  /\ Init /\ [][NextPopup]_vars
  /\ WF_vars(StartSettles)
  /\ WF_vars(RunTask)
  /\ WF_vars(ListenResolved)
  /\ WF_vars(TurnEnds)
  /\ WF_vars(TimerFires)

(***************************************************************************)
(* Properties                                                              *)
(***************************************************************************)
Last(seq) == seq[Len(seq)]

\* the deltas of the onToken calls with done = false, in order
RECURSIVE Deltas(_)
Deltas(tokens) ==
  IF tokens = <<>> THEN <<>>
  ELSE (IF Head(tokens).done THEN <<>> ELSE <<Head(tokens).delta>>)
       \o Deltas(Tail(tokens))

DoneTokens(tokens) == {i \in 1..Len(tokens) : tokens[i].done}

EventsWith(events, status) ==
  {i \in 1..Len(events) : events[i].type = "system" /\ events[i].status = status}

\* C1: in every stream a terminal event (system:done, system:error,
\* system:empty_transcription) is the last event written and the stream is
\* ended with it, so nothing follows it and there is never a second one; a
\* stream that was opened and has ended ends with a terminal event.
C1_OneTerminalEvent ==
  \A c \in Conns :
    LET k == conn[c]
    IN /\ \A i \in 1..Len(k.events) :
            IsTerminal(k.events[i]) => i = Len(k.events) /\ k.ended
       /\ k.sseOpen /\ (k.ended \/ k.pc = "closed")
            => k.ended /\ k.events /= <<>> /\ IsTerminal(Last(k.events))
       /\ k.events /= <<>> => k.sseOpen

\* an agent run that streamed a delta and then threw: the stream ends in error
C1_Witness ==
  \E c \in Conns :
    /\ conn[c].ended /\ conn[c].sseOpen
    /\ conn[c].agentState = "thrown"
    /\ Deltas(conn[c].tokens) /= <<>>
    /\ Last(conn[c].events).status = "error"

\* the events of a turn that ran to system:done
SuccessEvents(k) ==
  <<SystemEvent("transcribing", <<>>), UserEvent(k.transcript, k.confidence),
    SystemEvent("typing", <<>>)>>
  \o [i \in 1..Len(Deltas(k.tokens)) |-> OpenClawEvent(Deltas(k.tokens)[i], FALSE)]
  \o <<OpenClawEvent(<<>>, TRUE), SystemEvent("done", <<>>)>>

\* C2: a turn whose transcript is not empty, whose agent run returned without
\* an error and whose two messages were stored has written exactly
\* transcribing, user, typing, one openclaw event per delta (done = false, in
\* order), one empty openclaw event with done = true, system:done; and only
\* such a turn writes system:done.
C2_SuccessOrder ==
  \A c \in Conns :
    LET k == conn[c]
    IN /\ k.pc = "closed" /\ k.transcript /= <<>> /\ k.agentState = "returned"
            /\ k.agentError = <<>> /\ k.appended = 2
          => /\ k.events = SuccessEvents(k)
             /\ \A i \in 1..Len(Deltas(k.tokens)) : Deltas(k.tokens)[i] /= <<>>
       /\ EventsWith(k.events, "done") /= {}
          => k.transcript /= <<>> /\ k.agentState = "returned"
             /\ k.agentError = <<>> /\ k.events = SuccessEvents(k)

\* a finished successful turn with two deltas
C2_Witness ==
  \E c \in Conns :
    /\ conn[c].pc = "closed"
    /\ Len(Deltas(conn[c].tokens)) = 2
    /\ Last(conn[c].events).status = "done"

\* C3: while the cumulative texts of an agent run have each extended the one
\* before (starting from the empty text), the deltas given to onToken with
\* done = false concatenate to the last cumulative text.
C3_DeltasConcatenate ==
  \A c \in Conns :
    conn[c].pc = "agent" /\ conn[c].prefixOK
      => Flatten(Deltas(conn[c].tokens)) = conn[c].lastSnapshot

\* two growing cumulative texts gave two deltas
C3_Witness ==
  \E c \in Conns :
    /\ conn[c].pc = "agent" /\ conn[c].prefixOK
    /\ conn[c].nSnapshots = 2
    /\ Len(conn[c].tokens) = 2
    /\ conn[c].lastSnapshot = <<"a", "b">>

C5_EmptyTranscript ==
  \A c \in Conns :
    LET k == conn[c]
    IN k.sttState = "returned" /\ k.transcript = <<>>
       => /\ k.pc = "closed" /\ k.ended
          /\ k.events = <<SystemEvent("transcribing", <<>>),
                          UserEvent(<<>>, k.confidence),
                          SystemEvent("empty_transcription", <<>>)>>
          /\ k.agentCalls = 0

\* an empty transcript returned with a confidence other than 0
C5_Witness ==
  \E c \in Conns :
    /\ conn[c].sttState = "returned" /\ conn[c].transcript = <<>>
    /\ conn[c].confidence = 50
    /\ conn[c].ended

C7_AfterThrow(k) ==
  /\ k.statusCode = 200 /\ k.sseOpen /\ k.ended /\ k.jsonBody = ""
  /\ \E cause \in ErrorMessages :
       /\ k.sttError = <<"Soniox transcription failed: ", cause>>
       /\ k.events = <<SystemEvent("transcribing", <<>>),
                       SystemEvent("error", k.sttError)>>
  /\ k.agentCalls = 0 /\ k.appended = 0

\* C7: when transcribeAudio throws, the response keeps status 200 and the
\* stream is exactly transcribing, system:error with the exception's message
\* (which carries the cause); no user, typing or done event, no agent call,
\* and the step leaves every session history as it was.
C7_TranscriptionThrow ==
  /\ [](\A c \in Conns : conn[c].sttState = "thrown" => C7_AfterThrow(conn[c]))
  /\ [][\A c \in Conns :
          conn[c].sttState = "running" /\ conn'[c].sttState = "thrown"
            => sessions' = sessions]_vars

\* a turn ended by a transcription failure on a session that has a history
C7_Witness ==
  \E c \in Conns :
    /\ conn[c].sttState = "thrown"
    /\ conn[c].sessionId \in DOMAIN sessions
    /\ sessions[conn[c].sessionId].messages /= <<>>

\* the answer the audio endpoint owes a request, by the first failing check
C8_Expected(profileName, sessionId) ==
  IF profileName = "" THEN [status |-> 400, body |-> "X-Profile header required"]
  ELSE IF profileName \notin AllowedProfiles
    THEN [status |-> 403, body |-> "Profile not allowed"]
  ELSE IF sessionId = ""
    THEN [status |-> 400, body |-> "sessionId query parameter required"]
  ELSE IF sessionId \notin DOMAIN sessions
    THEN [status |-> 404, body |-> "Session not found"]
  ELSE [status |-> 0, body |-> ""]

\* C8: a request to the audio endpoint is answered by the first failing check
\* in the order header present (400), profile allowed (403), sessionId given
\* (400), session exists (404), with a JSON error body; then no stream is
\* opened, no event written, no collaborator called and the session store is
\* unchanged.  A request passing all four goes on to read the body.
C8_ValidationOrder ==
  [][\A c \in Conns :
       ~InFlight(conn[c]) /\ conn'[c] /= conn[c]
       => LET k == conn'[c]
              e == C8_Expected(k.profileName, k.sessionId)
          IN IF e.status = 0
             THEN k.pc = "reading" /\ k.statusCode = 0 /\ ~k.ended
             ELSE /\ k.pc = "closed" /\ k.ended
                  /\ k.statusCode = e.status /\ k.jsonBody = e.body
                  /\ ~k.sseOpen /\ k.events = <<>>
                  /\ k.sttCalls = 0 /\ k.agentCalls = 0
                  /\ sessions' = sessions
                  /\ pausedSessions' = pausedSessions
                  /\ idleTimers' = idleTimers
                  /\ cleanupInterval' = cleanupInterval]_vars

\* a forbidden profile asking for an unknown session is answered 403, not 404
C8_Witness ==
  \E c \in Conns :
    /\ conn[c].profileName = "Mallory"
    /\ conn[c].sessionId = "s2"
    /\ "s2" \notin DOMAIN sessions
    /\ sessions /= <<>>
    /\ conn[c].statusCode = 403

\* C9: reading the body, the chunk that takes the total over MAX_AUDIO_SIZE
\* ends the request with 413 and a JSON error body: no stream, no collaborator
\* call, no change to the session store; no chunk is read after it.  A total
\* up to and including MAX_AUDIO_SIZE is accepted and reading goes on.
C9_BodyLimit ==
  /\ [](\A c \in Conns :
          /\ conn[c].statusCode = 413
               => /\ conn[c].totalSize > MAX_AUDIO_SIZE
                  /\ conn[c].pc = "closed" /\ conn[c].ended
                  /\ conn[c].jsonBody = "Audio file too large"
                  /\ ~conn[c].sseOpen /\ conn[c].events = <<>>
                  /\ conn[c].sttCalls = 0 /\ conn[c].agentCalls = 0
                  /\ conn[c].appended = 0
          /\ InFlight(conn[c]) => conn[c].totalSize <= MAX_AUDIO_SIZE)
  /\ [][\A c \in Conns :
          conn[c].pc = "reading" /\ conn'[c].nChunks = conn[c].nChunks + 1
          => /\ conn'[c].totalSize > conn[c].totalSize
             /\ IF conn'[c].totalSize > MAX_AUDIO_SIZE
                THEN /\ conn'[c].statusCode = 413
                     /\ sessions' = sessions
                     /\ pausedSessions' = pausedSessions
                     /\ idleTimers' = idleTimers
                ELSE conn'[c].pc = "reading" /\ conn'[c].statusCode = 0]_vars

\* a body of exactly MAX_AUDIO_SIZE, in two chunks, reached the transcription
C9_Witness ==
  \E c \in Conns :
    /\ conn[c].pc = "transcribing"
    /\ conn[c].totalSize = MAX_AUDIO_SIZE
    /\ conn[c].nChunks = 2

\* the history n finished turns leave: user_1, assistant_1, ..., user_n, assistant_n
RECURSIVE C10_Expected(_)
C10_Expected(done) ==
  IF done = <<>> THEN <<>>
  ELSE <<[role |-> "user", content |-> Head(done).transcript],
         [role |-> "assistant", content |-> Head(done).reply]>>
       \o C10_Expected(Tail(done))

RolesAndContents(messages) ==
  [i \in 1..Len(messages) |->
     [role |-> messages[i].role, content |-> messages[i].content]]

\* C10: a session on which n turns ran, one after the other and each to
\* system:done, and none is running, has the history user_1, assistant_1, ...,
\* user_n, assistant_n with the transcript and the reply of each turn.
C10_SequentialHistory ==
  \A id \in DOMAIN sessions :
    turnLog[id].plain /\ TurnsInFlight(id) = {}
      => RolesAndContents(sessions[id].messages) = C10_Expected(turnLog[id].done)

\* two finished turns with different transcripts and different replies
C10_Witness ==
  \E id \in DOMAIN sessions :
    /\ turnLog[id].plain /\ TurnsInFlight(id) = {}
    /\ Len(turnLog[id].done) = 2
    /\ turnLog[id].done[1].transcript /= turnLog[id].done[2].transcript
    /\ turnLog[id].done[1].reply /= turnLog[id].done[2].reply

\* the turn of k left its user message as the last entry of the history
UserMessageLast(k, store) ==
  k.sessionId \in DOMAIN store
    => /\ store[k.sessionId].messages /= <<>>
       /\ Last(store[k.sessionId].messages).role = "user"
       /\ Last(store[k.sessionId].messages).content = k.transcript

C12_BlankTranscript ==
  [][\A c \in Conns :
       /\ conn[c].pc = "transcribing"
       /\ conn'[c].sttState = "returned"
       /\ Trim(conn'[c].transcript) = <<>>
       => /\ conn'[c].pc = "closed"
          /\ conn'[c].agentCalls = 0 /\ conn'[c].agentState = "none"
          /\ conn'[c].appended = 0
          /\ EventsWith(conn'[c].events, "typing") = {}
          /\ sessions' = sessions]_vars

\* the speech client recognised a single blank word (confidence 50) on a
\* session that already has a history
C12_Witness ==
  \E c \in Conns :
    /\ conn[c].sttState = "returned" /\ conn[c].confidence = 50
    /\ conn[c].transcript = <<>>
    /\ conn[c].sessionId \in DOMAIN sessions
    /\ Len(sessions[conn[c].sessionId].messages) = 2

\* the texts of the payloads that are no error and not blank, trimmed
C13_Texts(payloads) ==
  LET kept == SelectSeq(payloads, LAMBDA p : ~p.isError /\ Trim(p.text) /= <<>>)
  IN [i \in 1..Len(kept) |-> Trim(kept[i].text)]

\* the full final text of a run: those texts joined by one space, and the
\* handler's fixed sentence when there is none
C13_FullText(result) ==
  IF C13_Texts(result.payloads) = <<>> THEN FALLBACK_RESPONSE
  ELSE JoinSpace(C13_Texts(result.payloads))

\* C13: the step in which the agent run resolves without error appends
\* exactly one message: an assistant message holding the full final text of
\* the run, right after the turn's user message; the same step writes
\* system:done as the last event and ends the stream.
C13_AssistantAppended ==
  [][\A c \in Conns, r \in AgentRunResults :
       /\ AgentReturn(c, r)
       /\ conn'[c].agentError = <<>>
       /\ conn[c].sessionId \in DOMAIN sessions
       => LET id == conn[c].sessionId
              k == conn'[c]
          IN /\ UserMessageLast(conn[c], sessions)
             /\ sessions'[id].messages
                  = Append(sessions[id].messages,
                           [role |-> "assistant", content |-> C13_FullText(r),
                            timestamp |-> now])
             /\ \A other \in DOMAIN sessions \ {id} : sessions'[other] = sessions[other]
             /\ k.appended = 2
             /\ Last(k.events) = SystemEvent("done", <<>>)
             /\ EventsWith(k.events, "done") = {Len(k.events)}
             /\ k.pc = "closed" /\ k.ended]_vars

\* a reply streamed as the deltas "a" and "b" whose stored text is "a b"
C13_Witness ==
  \E c \in Conns :
    /\ conn[c].pc = "closed" /\ conn[c].appended = 2
    /\ Deltas(conn[c].tokens) = << <<"a">>, <<"b">> >>
    /\ conn[c].sessionId \in DOMAIN sessions
    /\ Last(sessions[conn[c].sessionId].messages).role = "assistant"
    /\ Last(sessions[conn[c].sessionId].messages).content = <<"a", " ", "b">>

\* an existing, active session without activity for the idle timeout or longer
IdleActive(id) ==
  /\ id \in DOMAIN sessions
  /\ id \notin pausedSessions
  /\ now - sessions[id].lastActivity >= IDLE_TIMEOUT_MS

\* C14: the sweep interval is installed whenever a session exists, and when
\* a sweep tick completes every session that was active and idle for the
\* timeout or longer is paused (and was notified as paused by that tick).
C14_SweepPausesIdle ==
  /\ [](sessions /= <<>> => cleanupInterval)
  /\ [][SweepTick =>
          \A id \in DOMAIN sessions :
            IdleActive(id)
              => /\ id \in pausedSessions'
                 /\ \E i \in DOMAIN notifications' :
                      notifications'[i] = <<"pause", id>>]_vars

\* a sweep tick has just paused a session idle for exactly the timeout
C14_Witness ==
  \E id \in DOMAIN sessions :
    /\ id \in pausedSessions
    /\ notifications = << <<"pause", id>> >>
    /\ sweepDue = now + CHECK_INTERVAL_MS
    /\ now - sessions[id].lastActivity = IDLE_TIMEOUT_MS

\* C15: getOrResumeSession on a session that is active leaves the paused
\* set and the histories alone and tells no observer; it sets lastActivity
\* to now and rearms the session's idle timer, nothing else.  Called again
\* at once it changes nothing: twice is once.
C15_ResumeIdempotent ==
  /\ [][\A id \in SessionIds :
          /\ GetOrResumeSessionCall(id)
          /\ id \in DOMAIN sessions /\ id \notin pausedSessions
          => /\ pausedSessions' = pausedSessions
             /\ notifications' = <<>>
             /\ sessions' = [sessions EXCEPT ![id].lastActivity = now]
             /\ idleTimers' = Put(idleTimers, id, now + IDLE_TIMEOUT_MS)
             /\ cleanupInterval' = cleanupInterval]_vars
  /\ [](\A id \in DOMAIN sessions :
          LET once == [getOrResumeSession(Store, id) EXCEPT !.notifications = <<>>]
          IN getOrResumeSession(once, id) = once)

\* the call on an active session that has a history, some time after its
\* last activity
C15_Witness ==
  \E id \in DOMAIN sessions :
    /\ id \notin pausedSessions
    /\ notifications = <<>>
    /\ sessions[id].messages /= <<>>
    /\ sessions[id].lastActivity = now
    /\ Last(sessions[id].messages).timestamp < now
    /\ now < IDLE_TIMEOUT_MS

\* C16: addMessage on a paused session resumes it: after the call the
\* session is active, the message is the last entry of its history,
\* lastActivity is now, its idle timer is armed and the resume observer was
\* called once, for this session.
C16_AddMessageResumes ==
  [][\A id \in SessionIds :
       AddMessageCall(id, <<"h", "i">>) /\ id \in pausedSessions
       => /\ thrown' = <<>>
          /\ id \notin pausedSessions'
          /\ sessions'[id].messages
               = Append(sessions[id].messages,
                        [role |-> "user", content |-> <<"h", "i">>,
                         timestamp |-> now])
          /\ sessions'[id].lastActivity = now
          /\ id \in DOMAIN idleTimers'
          /\ idleTimers'[id] = now + IDLE_TIMEOUT_MS
          /\ notifications' = << <<"resume", id>> >>]_vars

\* a message stored at the time of a resume notification
C16_Witness ==
  \E id \in DOMAIN sessions :
    /\ notifications = << <<"resume", id>> >>
    /\ sessions[id].messages /= <<>>
    /\ Last(sessions[id].messages).timestamp = now
    /\ id \notin pausedSessions

\* C17: addMessage with an identifier that is not in the store throws
\* "Session not found: <id>" and changes nothing: no session appears, no
\* history, timestamp, paused flag or timer changes.
C17_AddMessageUnknown ==
  [][\A id \in SessionIds :
       AddMessageCall(id, <<"h", "i">>) /\ id \notin DOMAIN sessions
       => /\ thrown' = <<"Session not found: ", id>>
          /\ sessions' = sessions
          /\ pausedSessions' = pausedSessions
          /\ idleTimers' = idleTimers
          /\ cleanupInterval' = cleanupInterval
          /\ sweepDue' = sweepDue
          /\ notifications' = <<>>]_vars

\* the call failed for an identifier that was cleared while another session,
\* paused, is in the store
C17_Witness ==
  \E id \in DOMAIN turnLog \ DOMAIN sessions :
    /\ thrown = <<"Session not found: ", id>>
    /\ pausedSessions /= {}

\* the identifiers of the callbacks a step invoked
Notified(notes) == {notes[i][2] : i \in DOMAIN notes}

\* C18: clearSession(id) leaves no session, no paused flag and no idle timer
\* for id and does not touch any other session; no bookkeeping is kept for an
\* identifier without a session, and every pause or resume callback is for a
\* session in the store, so none is invoked for id once it is cleared.
C18_ClearSession ==
  /\ [][\A id \in SessionIds :
          ClearSession(id)
          => /\ ~getSession(Store', id)
             /\ id \notin pausedSessions'
             /\ id \notin DOMAIN idleTimers'
             /\ notifications' = <<>>
             /\ \A other \in DOMAIN sessions \ {id} :
                  /\ other \in DOMAIN sessions'
                  /\ sessions'[other] = sessions[other]
                  /\ other \in pausedSessions' <=> other \in pausedSessions
                  /\ other \in DOMAIN idleTimers' <=> other \in DOMAIN idleTimers
                  /\ other \in DOMAIN idleTimers
                       => idleTimers'[other] = idleTimers[other]]_vars
  /\ [](/\ pausedSessions \subseteq DOMAIN sessions
        /\ DOMAIN idleTimers \subseteq DOMAIN sessions)
  /\ [][Notified(notifications') \subseteq DOMAIN sessions]_vars

\* a paused session was cleared, the other session is still there, and time
\* has passed the moment the cleared session's timer would have been due
C18_Witness ==
  \E id \in DOMAIN turnLog \ DOMAIN sessions :
    /\ sessions /= <<>>
    /\ DOMAIN idleTimers /= {}
    /\ now >= IDLE_TIMEOUT_MS

\* C19: a create-session request for profile p stores, under the identifier
\* it answers with, a session carrying p with an empty history and createdAt
\* and lastActivity equal to now; the session is not paused, its idle timer
\* is armed for the idle timeout and getSession finds it.
C19_CreateSession ==
  [][\A p \in StoreProfiles :
       handleNewSession(p, SessionIds)
       => LET id == newSessionResponse'.sessionId
          IN /\ newSessionResponse'.statusCode = 200
             /\ getSession(Store', id)
             /\ sessions'[id] = [id |-> id, createdAt |-> now, lastActivity |-> now,
                                 profileName |-> p, messages |-> <<>>]
             /\ id \notin pausedSessions'
             /\ id \in DOMAIN idleTimers'
             /\ idleTimers'[id] = now + IDLE_TIMEOUT_MS
             /\ cleanupInterval']_vars

\* a session for Bob created after time has passed, next to a paused session
C19_Witness ==
  LET id == newSessionResponse.sessionId
  IN /\ newSessionResponse.statusCode = 200
     /\ id \in DOMAIN sessions
     /\ sessions[id].profileName = "Bob"
     /\ sessions[id].createdAt = now /\ now > 0
     /\ sessions[id].messages = <<>>
     /\ pausedSessions /= {}

\* C20: no two createSession calls return the same identifier: every
\* identifier generated so far was returned by one call only.
C20_UniqueIds ==
  \A id \in DOMAIN turnLog : turnLog[id].calls = 1

\* a second call returned the identifier of a session in the store and put
\* a new, empty session in its place
C20_Overwritten ==
  \E id \in DOMAIN sessions :
    /\ turnLog[id].calls = 2
    /\ newSessionResponse.sessionId = id
    /\ sessions[id].messages = <<>>

IsPrefix(a, b) == Len(a) <= Len(b) /\ SubSeq(b, 1, Len(a)) = a

\* C21: the history of a session is append-only: over every step that keeps
\* the session, the history before is a prefix of the history after.
C21_AppendOnly ==
  [][\A id \in DOMAIN sessions \cap DOMAIN sessions' :
       IsPrefix(sessions[id].messages, sessions'[id].messages)]_vars

\* a history of four messages, grown over two turns
C21_Witness ==
  \E id \in DOMAIN sessions :
    /\ Len(sessions[id].messages) = 4
    /\ Len(turnLog[id].done) = 2

\* C22: the step that answers a session-info request changes nothing in the
\* session manager: no history, no lastActivity, no paused flag, no timer,
\* and no observer is called; for a session in the store the answer is 200
\* with messageCount equal to the length of its history and the lastActivity
\* it had.
C22_GetSessionPure ==
  [][sessionInfoResponse' /= NoSessionInfo
     => /\ sessions' = sessions
        /\ pausedSessions' = pausedSessions
        /\ idleTimers' = idleTimers
        /\ cleanupInterval' = cleanupInterval /\ sweepDue' = sweepDue
        /\ notifications' = <<>>
        /\ sessionInfoResponse'.statusCode = 200
             => LET id == sessionInfoResponse'.sessionId
                IN /\ id \in DOMAIN sessions
                   /\ sessionInfoResponse'.messageCount = Len(sessions[id].messages)
                   /\ sessionInfoResponse'.lastActivity
                        = <<"ISO-8601", sessions[id].lastActivity>>
        /\ sessionInfoResponse'.statusCode \in {400, 404, 200}]_vars

\* the answer for a paused session that has one message, given after its
\* idle timeout: the session is still paused
C22_Witness ==
  /\ sessionInfoResponse.statusCode = 200
  /\ sessionInfoResponse.messageCount = 1
  /\ sessionInfoResponse.sessionId \in pausedSessions
  /\ sessionInfoResponse.lastActivity[2] < now

\* C23: when the agent run ends with an error result the streaming service
\* has made no onToken call in the turn: no delta, no done token.
C23_NoTokenOnError ==
  \A c \in Conns :
    conn[c].agentState \in {"returned", "thrown"} /\ conn[c].agentError /= <<>>
      => conn[c].tokens = <<>>

\* the run resolved aborted and without text: the service had passed on a
\* delta and then called onToken("", true) before it returned the error
C23_DoneTokenThenError ==
  \E c \in Conns :
    /\ conn[c].agentState = "returned"
    /\ conn[c].agentError = <<"Response generation was aborted">>
    /\ conn[c].tokens = <<[delta |-> <<"a">>, done |-> FALSE],
                          [delta |-> <<>>, done |-> TRUE]>>

\* C24: a cumulative text no longer than lastEmittedLength causes no onToken
\* call and no failure and leaves lastEmittedLength as it is;
\* lastEmittedLength changes only together with one onToken call carrying a
\* non-empty delta, and then it grows.
C24_NoOpSnapshot ==
  [][\A c \in Conns :
       conn[c].pc = "agent" /\ conn'[c].nSnapshots = conn[c].nSnapshots + 1
       => LET k == conn[c]
              k2 == conn'[c]
          IN /\ k2.pc = "agent"
             /\ Len(k2.lastSnapshot) <= k.lastEmittedLength
                  => /\ k2.tokens = k.tokens /\ k2.events = k.events
                     /\ k2.lastEmittedLength = k.lastEmittedLength
             /\ k2.lastEmittedLength >= k.lastEmittedLength
             /\ k2.lastEmittedLength /= k.lastEmittedLength
                  => /\ Len(k2.tokens) = Len(k.tokens) + 1
                     /\ Last(k2.tokens).delta /= <<>>
                     /\ ~Last(k2.tokens).done
                     /\ k2.lastEmittedLength = Len(k2.lastSnapshot)]_vars

\* after "ab" the run reported the shorter text "b": one token, length kept
C24_Witness ==
  \E c \in Conns :
    /\ conn[c].pc = "agent" /\ conn[c].nSnapshots = 2
    /\ conn[c].lastSnapshot = <<"b">>
    /\ conn[c].lastEmittedLength = 2
    /\ Len(conn[c].tokens) = 1

\* C25: within one turn transcribeAudio is called at most once and the agent
\* service at most once; after either failed the turn is over, with that one
\* call, and the record of the turn does not change any more.
C25_NoRetry ==
  /\ [](\A c \in Conns :
          LET k == conn[c]
          IN /\ k.sttCalls <= 1 /\ k.agentCalls <= 1
             /\ k.sttState = "thrown"
                  => k.pc = "closed" /\ k.sttCalls = 1 /\ k.agentCalls = 0
             /\ k.agentState = "thrown" \/ k.agentError /= <<>>
                  => k.pc = "closed" /\ k.sttCalls = 1 /\ k.agentCalls = 1)
  /\ [][\A c \in Conns :
          conn[c].pc = "closed" /\ conn'[c] /= conn[c]
            => conn'[c].sttCalls = 0 /\ conn'[c].agentCalls = 0]_vars

\* a turn in which the transcription failed, and one in which the agent did
C25_Witness ==
  \E c \in Conns :
    /\ conn[c].pc = "closed"
    /\ conn[c].agentState = "thrown"
    /\ conn[c].agentCalls = 1 /\ conn[c].sttCalls = 1

\* C26: every session in the store has a profile of the allow-list; a
\* create-session request without profileName is answered 400, one with a
\* profileName outside the allow-list 403, one with an allowed profileName
\* 200, and the 400 and 403 answers leave the store as it was.
C26_AllowedProfiles ==
  /\ [](\A id \in DOMAIN sessions : sessions[id].profileName \in AllowedProfiles)
  /\ [](newSessionResponse.statusCode /= 0
          => newSessionResponse.statusCode =
               IF newSessionResponse.request = "" THEN 400
               ELSE IF newSessionResponse.request \notin AllowedProfiles THEN 403
               ELSE 200)
  /\ [][newSessionResponse' /= newSessionResponse
          /\ newSessionResponse'.statusCode \in {400, 403}
        => /\ sessions' = sessions /\ pausedSessions' = pausedSessions
           /\ idleTimers' = idleTimers /\ UNCHANGED turnLog]_vars

\* a request for a profile outside the allow-list was answered 403 while a
\* session of an allowed profile is in the store
C26_Witness ==
  /\ newSessionResponse.statusCode = 403
  /\ newSessionResponse.request = "Mallory"
  /\ \E id \in DOMAIN sessions : sessions[id].profileName = "Alice"

\* C27: generateAgentResponseBurst calls generateAgentResponse once, with
\* the params it was given, and returns that call's result; it calls onChunk
\* once, with (result.text, true), when the result has no error and a
\* non-empty text, and not at all otherwise.
C27_BurstContract ==
  call.fn = "generateAgentResponseBurst" /\ call.returned
  => LET expected ==
           IF call.run.throws /= ""
             THEN [text |-> <<>>, error |-> <<call.run.throws>>]
             ELSE extractResultText(call.run)
     IN /\ call.agentLog = <<call.params>>
        /\ call.result = expected
        /\ call.chunks =
             IF expected.error = <<>> /\ expected.text /= <<>>
               THEN <<[text |-> expected.text, done |-> TRUE]>>
               ELSE <<>>

\* a run that resolved with two texts (one chunk "a a"), and the claim's
\* other side is exercised by runs without text
C27_Witness ==
  /\ call.fn = "generateAgentResponseBurst" /\ call.returned
  /\ call.result = [text |-> <<"a", " ", "a">>, error |-> <<>>]
  /\ call.chunks = <<[text |-> <<"a", " ", "a">>, done |-> TRUE]>>

\* the lines of a frame: every line feed ends one
RECURSIVE SplitLines(_, _)
SplitLines(f, cur) ==
  IF f = <<>> THEN (IF cur = <<>> THEN <<>> ELSE <<cur>>)
  ELSE IF Head(f) = "\n" THEN <<cur>> \o SplitLines(Tail(f), <<>>)
  ELSE SplitLines(Tail(f), Append(cur, Head(f)))

\* the string value that starts at the opening quote line[i]: it ends at the
\* first quote that no backslash escapes
RECURSIVE ReadString(_, _)
ReadString(line, i) ==
  IF i > Len(line) THEN <<"unterminated">>
  ELSE IF line[i] = "\"" THEN <<>>
  ELSE IF line[i] = "\\" /\ i < Len(line)
    THEN <<(IF line[i + 1] = "n" THEN "\n"
            ELSE IF line[i + 1] = "r" THEN "\r"
            ELSE line[i + 1])>> \o ReadString(line, i + 2)
  ELSE <<line[i]>> \o ReadString(line, i + 1)

\* the value of the string field written after the piece key
FieldOf(line, key) ==
  LET at == {i \in 1..Len(line) : line[i] = key}
  IN IF at = {} THEN <<"absent">>
     ELSE LET i == CHOOSE j \in at : \A j2 \in at : j <= j2
          IN ReadString(line, i + 2)

\* C28: sendSSE writes once, and what it writes is three lines: "event: "
\* with the event's type, "data: " with the JSON of the event, and an empty
\* line; carriage returns and line feeds occur nowhere else, and the JSON's
\* type and text read back as the event's.
C28_OneFramePerEvent ==
  call.fn = "sendSSE" /\ call.returned
  => /\ Len(call.written) = 1
     /\ LET f == call.written[1]
            e == call.event
            lines == SplitLines(f, <<>>)
        IN /\ f[Len(f)] = "\n"
           /\ Len(lines) = 3
           /\ lines[1] = <<"event: ", e.type>>
           /\ lines[2][1] = "data: "
           /\ lines[3] = <<>>
           /\ \A i \in 1..Len(f) : f[i] /= "\r"
           /\ FieldOf(lines[2], "\"type\":") = <<e.type>>
           /\ e.type \in {"user", "openclaw"}
                => FieldOf(lines[2], "\"text\":") = e.text
           /\ e.type = "system" /\ e.message /= <<>>
                => FieldOf(lines[2], "\"message\":") = e.message

\* a user event whose text is a line feed and a quote was framed
C28_Witness ==
  /\ call.fn = "sendSSE" /\ call.returned
  /\ call.event = UserEvent(<<"\n", "\"">>, 95)
  /\ Len(call.written) = 1

\* C29: a turn whose session was paused when its request passed validation
\* has resumed the session by the time transcribeAudio is called: from the
\* call on, whatever the turn's outcome, the session's lastActivity is not
\* older than the request.
C29_ResumedBeforeTranscription ==
  \A c \in Conns :
    LET k == conn[c]
    IN k.sttCalls = 1 /\ k.wasPaused /\ k.sessionId \in DOMAIN sessions
         => sessions[k.sessionId].lastActivity >= k.arrivedAt

\* a turn on a session paused before the request arrived ended with a failed
\* transcription, and the session is still paused, its lastActivity untouched
C29_StillPaused ==
  \E c \in Conns :
    /\ conn[c].pc = "closed" /\ conn[c].sttState = "thrown"
    /\ conn[c].wasPaused
    /\ conn[c].sessionId \in pausedSessions
    /\ sessions[conn[c].sessionId].lastActivity < conn[c].arrivedAt

\* the pause callbacks for id among the callbacks notes
PauseCalls(notes, id) == {i \in DOMAIN notes : notes[i] = <<"pause", id>>}

\* C30: a step invokes the pause callback for a session once if the session
\* goes from active to paused in it and not at all otherwise; a paused
\* session becomes active again only with a fresh lastActivity, so one idle
\* window has one pause; a paused or cleared session has no idle timer, and
\* its timer callback, the sweep and pauseSession leave the store as it is
\* and invoke no callback.
C30_PauseOnce ==
  /\ [](\A id \in SessionIds :
          id \notin DOMAIN sessions \/ id \in pausedSessions
            => /\ id \notin DOMAIN idleTimers
               /\ idleTimerCallback(Store, id) = Store
               /\ pauseSession(Store, id) = Store
               /\ sweep(Store, {id} \cap DOMAIN sessions) = Store)
  /\ [][\A id \in SessionIds :
          /\ Cardinality(PauseCalls(notifications', id))
               = IF /\ id \in DOMAIN sessions /\ id \notin pausedSessions
                    /\ id \in pausedSessions'
                 THEN 1 ELSE 0
          /\ id \in pausedSessions /\ id \notin pausedSessions'
               /\ id \in DOMAIN sessions'
               => sessions'[id].lastActivity = now']_vars

\* the idle timer has just paused s1 while the sweep is due as well: the
\* sweep's callback will run on the paused session
C30_Witness ==
  /\ notifications = <<<<"pause", "s1">>>>
  /\ "s1" \in pausedSessions
  /\ cleanupInterval /\ sweepDue <= now
  /\ sweepFindsIdle(Store, "s1")

\* C31: pauseSession on an active session adds the paused flag, removes the
\* idle timer and invokes the pause callback, and nothing else; resumeSession
\* on a paused session removes the flag, sets lastActivity, arms the idle
\* timer and invokes the resume callback, and nothing else.  Neither changes
\* a message history, and a step in which a session becomes paused, or
\* active again, changes no history except by addMessage's own append and
\* writes nothing to a connection.
C31_PauseResumeFrame ==
  /\ [](\A id \in DOMAIN sessions :
          LET P == pauseSession(Store, id)
              R == resumeSession(Store, id)
          IN /\ id \notin pausedSessions
                  => P = [Store EXCEPT
                            !.pausedSessions = pausedSessions \cup {id},
                            !.idleTimers = Remove(idleTimers, id),
                            !.notifications = <<<<"pause", id>>>>]
             /\ id \in pausedSessions
                  => R = [Store EXCEPT
                            !.pausedSessions = pausedSessions \ {id},
                            !.sessions[id].lastActivity = now,
                            !.idleTimers = Put(idleTimers, id, now + IDLE_TIMEOUT_MS),
                            !.notifications = <<<<"resume", id>>>>])
  /\ [][\A id \in DOMAIN sessions :
          /\ id \notin pausedSessions /\ id \in pausedSessions'
               => /\ sessions' = sessions
                  /\ conn' = conn
                  /\ id \notin DOMAIN idleTimers'
                  /\ <<"resume", id>> \notin {notifications'[i] : i \in DOMAIN notifications'}
          /\ id \in pausedSessions /\ id \notin pausedSessions'
               /\ id \in DOMAIN sessions'
               => /\ IsPrefix(sessions[id].messages, sessions'[id].messages)
                  /\ [sessions'[id] EXCEPT !.messages = sessions[id].messages,
                                           !.lastActivity = sessions[id].lastActivity]
                       = sessions[id]
                  /\ conn' = conn
                  /\ notifications' = <<<<"resume", id>>>>]_vars

\* a session with a message in its history has just been paused
C31_Witness ==
  \E id \in DOMAIN sessions :
    /\ id \in pausedSessions
    /\ Len(sessions[id].messages) = 1
    /\ notifications = <<<<"pause", id>>>>

\* C32: a request for an existing session is taken whether or not the session
\* has a turn in flight (no rejection: the body is read), a turn in flight can always take
\* its next step whatever the other turn does (no queue), and every stream,
\* overlapped or not, ends with exactly one terminal event, its last.
C32_OverlappingTurns ==
  /\ [](\A c \in Conns :
          LET k == conn[c]
          IN /\ k.statusCode \in {0, 200, 404}
             /\ k.pc = "reading" => ENABLED EndOfBody(c)
             /\ k.pc = "transcribing" => ENABLED TranscribeThrow(c, "boom")
             /\ k.pc = "agent" => ENABLED AgentThrow(c, "boom")
             /\ \A i \in 1..Len(k.events) :
                  IsTerminal(k.events[i]) => i = Len(k.events) /\ k.ended
             /\ k.pc = "closed" /\ k.sseOpen
                  => k.ended /\ k.events /= <<>> /\ IsTerminal(Last(k.events)))
  /\ [][\A c \in Conns :
          ~InFlight(conn[c]) /\ conn'[c] /= conn[c]
            => /\ conn'[c].sessionId \in DOMAIN sessions => conn'[c].pc = "reading"
               /\ sessions' = sessions]_vars

\* both turns on s1 ended in done and the history reads user "hi", user
\* "yo", the reply to "yo", the reply to "hi"
C32_Interleaved ==
  /\ "s1" \in DOMAIN sessions
  /\ \A c \in Conns : conn[c].pc = "closed" /\ conn[c].sessionId = "s1"
                      /\ conn[c].events /= <<>>
                      /\ Last(conn[c].events).status = "done"
  /\ LET m == sessions["s1"].messages
     IN /\ Len(m) = 4
        /\ <<m[1].role, m[2].role, m[3].role, m[4].role>>
             = <<"user", "user", "assistant", "assistant">>
        /\ m[1].content = <<"h", "i">> /\ m[2].content = <<"y", "o">>
        /\ m[3].content /= m[4].content
        /\ turnLog["s1"].done
             = << [transcript |-> <<"y", "o">>, reply |-> m[3].content],
                  [transcript |-> <<"h", "i">>, reply |-> m[4].content] >>

\* C33: with turns on two sessions interleaved in any way, a step changes a
\* session's record, paused flag or idle timer only if it is a step of a
\* turn on that session (or the session's creation), and every history is
\* exactly the messages the session's own turns passed to addMessage.
C33_SessionsIsolated ==
  /\ [](\A id \in DOMAIN sessions :
          RolesAndContents(sessions[id].messages) = turnLog[id].appends)
  /\ [][\A id \in DOMAIN sessions :
          \/ /\ sessions'[id] = sessions[id]
             /\ (id \in pausedSessions') = (id \in pausedSessions)
             /\ idleTimers'[id] = idleTimers[id]
          \/ \E c \in Conns :
               conn'[c] /= conn[c] /\ conn[c].sessionId = id]_vars

\* a turn on s2 ran to done while a turn on s1 was suspended at the agent call
C33_Witness ==
  /\ DOMAIN sessions = {"s1", "s2"}
  /\ conn["c1"].pc = "agent" /\ conn["c1"].sessionId = "s1"
  /\ conn["c2"].pc = "closed" /\ conn["c2"].sessionId = "s2"
  /\ Len(sessions["s2"].messages) = 2
  /\ sessions["s1"].messages[1].content /= sessions["s2"].messages[1].content

\* what the desktop client has accumulated from the stream: the texts of
\* the openclaw events, concatenated (agentText += payload.text)
RECURSIVE agentText(_)
agentText(events) ==
  IF events = <<>> THEN <<>>
  ELSE (IF Head(events).type = "openclaw" THEN Head(events).text ELSE <<>>)
       \o agentText(Tail(events))

\* C34: in a turn that ended in system:done the texts of the turn's openclaw
\* events, concatenated, are the content of the assistant message the turn
\* appended to the history.
C34_DisplayedIsStored ==
  \A c \in Conns :
    LET k == conn[c]
    IN /\ k.pc = "closed" /\ k.events /= <<>> /\ Last(k.events).status = "done"
       /\ k.sessionId \in DOMAIN sessions
       /\ turnLog[k.sessionId].done /= <<>>
       => agentText(k.events) = Last(turnLog[k.sessionId].done).reply

\* the run made no partial reply and resolved with the texts "a " and "b":
\* the turn ended in done with the assistant message "a b" stored and no
\* text in any openclaw event
C34_NothingDisplayed ==
  \E c \in Conns :
    /\ conn[c].pc = "closed" /\ conn[c].events /= <<>>
    /\ Last(conn[c].events).status = "done"
    /\ conn[c].sessionId \in DOMAIN sessions
    /\ Last(sessions[conn[c].sessionId].messages)
         = [role |-> "assistant", content |-> <<"a", " ", "b">>, timestamp |-> now]
    /\ agentText(conn[c].events) = <<>>

\* C35: a step of a turn whose session was cleared while the turn waited for
\* transcribeAudio or for the agent stores nothing and creates no session;
\* when the step reaches addMessage (the transcript is not empty, the agent
\* result has no error) the turn ends with the stream's single terminal
\* event system:error "Session not found: <id>", without an agent call if it
\* was the user message.
C35_ClearedMidTurn ==
  [][\A c \in Conns :
       /\ conn[c].pc \in {"transcribing", "agent"}
       /\ conn[c].sessionId \notin DOMAIN sessions
       /\ conn'[c] /= conn[c]
       => LET k == conn[c]
              k2 == conn'[c]
              reached ==
                \/ k.pc = "transcribing" /\ k2.sttState = "returned"
                     /\ k2.transcript /= <<>>
                \/ k.pc = "agent" /\ k2.agentState = "returned"
                     /\ k2.agentError = <<>>
          IN /\ sessions' = sessions
             /\ k2.appended = k.appended
             /\ reached
                  => /\ k2.pc = "closed" /\ k2.ended
                     /\ Last(k2.events)
                          = SystemEvent("error", SessionNotFound(k.sessionId))
                     /\ Cardinality({i \in 1..Len(k2.events) :
                                       IsTerminal(k2.events[i])}) = 1
                     /\ k2.agentCalls = k.agentCalls]_vars

\* the session was cleared during the agent call, after the user message
\* had been stored: the run resolved and the turn ended in the error
C35_Witness ==
  \E c \in Conns :
    /\ conn[c].pc = "closed" /\ conn[c].appended = 1
    /\ conn[c].agentState = "returned" /\ conn[c].agentError = <<>>
    /\ conn[c].sessionId \notin DOMAIN sessions
    /\ Last(conn[c].events)
         = SystemEvent("error", SessionNotFound(conn[c].sessionId))

\* C36: in every state of the session manager the paused set and the idle
\* timers hold identifiers of sessions only, a paused session has no idle
\* timer, a session that is not paused has one, and the sweep interval is
\* installed exactly when there is a session.
C36_StoreInvariant ==
  /\ pausedSessions \subseteq DOMAIN sessions
  /\ DOMAIN idleTimers \subseteq DOMAIN sessions
  /\ \A id \in DOMAIN sessions :
       (id \in pausedSessions) = (id \notin DOMAIN idleTimers)
  /\ cleanupInterval = (DOMAIN sessions /= {})

\* one session paused, the other active with its timer pending
C36_Witness ==
  /\ DOMAIN sessions = {"s1", "s2"}
  /\ Cardinality(pausedSessions) = 1
  /\ Cardinality(DOMAIN idleTimers) = 1
  /\ cleanupInterval

\* C37: the idle timer of a session is due one idle timeout after the
\* session's lastActivity, and a session becomes paused only when it has been
\* idle for at least the idle timeout; it stays so while it is paused.
C37_NoPrematurePause ==
  /\ [](\A id \in DOMAIN idleTimers :
          id \in DOMAIN sessions
            => idleTimers[id] = sessions[id].lastActivity + IDLE_TIMEOUT_MS)
  /\ [](\A id \in pausedSessions :
          id \in DOMAIN sessions
            => now - sessions[id].lastActivity >= IDLE_TIMEOUT_MS)
  /\ [][\A id \in DOMAIN sessions :
          id \notin pausedSessions /\ id \in pausedSessions'
            => now' - sessions'[id].lastActivity >= IDLE_TIMEOUT_MS]_vars

\* s1 has just been paused while s2, created with it but active since, stays
\* active with its timer due later
C37_Witness ==
  /\ DOMAIN sessions = {"s1", "s2"}
  /\ notifications = <<<<"pause", "s1">>>>
  /\ pausedSessions = {"s1"}
  /\ sessions["s2"].createdAt = sessions["s1"].createdAt
  /\ sessions["s2"].lastActivity > sessions["s1"].lastActivity
  /\ idleTimers["s2"] > now

\* C38: a turn that has stored a message in a session, or called the agent
\* with the session's history, was requested under the profile the session
\* was created for.
C38_OwnProfileOnly ==
  \A c \in Conns :
    LET k == conn[c]
    IN (k.appended > 0 \/ k.agentCalls > 0) /\ k.sessionId \in DOMAIN sessions
         => k.profileName = sessions[k.sessionId].profileName

\* a request under X-Profile "Bob" for the session created for "Alice" ran
\* to system:done: both its messages are in Alice's history
C38_ForeignTurn ==
  \E c \in Conns :
    /\ conn[c].profileName = "Bob"
    /\ conn[c].sessionId \in DOMAIN sessions
    /\ sessions[conn[c].sessionId].profileName = "Alice"
    /\ conn[c].pc = "closed" /\ conn[c].appended = 2
    /\ Len(sessions[conn[c].sessionId].messages) = 2


\* the stop_and_send requests made for the press p
SendsOf(P, p) == { i \in DOMAIN P.sends : P.sends[i].press = p }

\* the registered voice-event listeners that were registered for the press p
ListenersOf(P, p) == { l \in P.listeners : P.listens[l] = p }

\* C39: for each press of the microphone button (each start_recording) at
\* most one stop_and_send request is made and at most one voice-event
\* listener is registered at a time, whatever mouseup and mouseleave events
\* arrived while start_recording was pending.
C39_OneSendPerPress ==
  \A p \in DOMAIN popup.invokes :
    /\ Cardinality(SendsOf(popup, p)) <= 1
    /\ Cardinality(ListenersOf(popup, p)) <= 1

\* mouseup and mouseleave both arrived while the start_recording of the first
\* press was pending, and the press ended with two requests and two listeners
C39_DoubleRelease ==
  /\ Len(popup.invokes) = 1
  /\ Len(popup.sends) = 2
  /\ popup.sends[1].press = 1 /\ popup.sends[1].event = "mouseup"
  /\ popup.sends[2].press = 1 /\ popup.sends[2].event = "mouseleave"
  /\ ListenersOf(popup, 1) = {1, 2}
  /\ popup.unlisten = 2

\* a turn is being processed: from the release of the button to the reset
BeingProcessed(P) == P.isProcessing

\* the idle state: not processing and no voice-event listener registered
Idle(P) == ~P.isProcessing /\ P.listeners = {}

\* no start_recording is invoked in a step taken while a turn is being
\* processed
C40_NoStartWhileProcessing ==
  [][BeingProcessed(popup) => Len(popup'.invokes) = Len(popup.invokes)]_vars

\* C40: recording does not start while a turn is being processed, and after
\* a terminal voice event (done, error, empty_transcription) or a rejected
\* stop_and_send the client eventually is idle: isProcessing is false and
\* no voice-event listener is registered.
C40_ReturnsToIdle ==
  /\ [][BeingProcessed(popup) => Len(popup'.invokes) = Len(popup.invokes)]_vars
  /\ popup.ended ~> Idle(popup)

\* a turn ended by empty_transcription after which the timer brought the
\* client back to idle
C40_BackToIdle ==
  /\ popup.ended /\ Idle(popup)
  /\ Len(popup.sends) = 1 /\ popup.sends[1].state = "ended"
  /\ popup.timers = 0
  /\ popup.micLabel = "Hold to Speak"
  /\ popup.unlisten = 0

====
